---- MODULE Spec2Model ----
(***************************************************************************)
(* Verification model of the PiexelForge geometry core:                    *)
(*   - PrimitiveClipper   (src/gpu/rasterizer/cores.py)                     *)
(*   - TriangleRasterizer (src/gpu/rasterizer/rasterizer.py)                *)
(*                                                                         *)
(* Both are clocked FSMs.  One action of the model is one clock edge taken *)
(* in one FSM state; clock edges on which no register changes are          *)
(* stuttering steps.  Registers keep the names they have in the source.    *)
(*                                                                         *)
(* Fixed point: the source uses FixedPoint = fixed.SQ(13, 13)              *)
(* (src/gpu/utils/types.py:7).  TLC's integers are 32 bit, so the model    *)
(* keeps the two's-complement wrap-around of the format but scales its     *)
(* widths down to SQ(IntBits, FracBits).  A value is held as its raw       *)
(* integer (value * 2^FracBits).                                           *)
(***************************************************************************)
EXTENDS Integers, Sequences, FiniteSets, TLC

\* ---------------------------------------------------------------- bounds
IntBits == 5
FracBits == 2
\* number of primitives presented to the clipper in one behaviour
MaxPrims == 1

\* ------------------------------------------------------- fixed point
RECURSIVE Pow2(_)
Pow2(n) == IF n = 0 THEN 1 ELSE 2 * Pow2(n - 1)

Width == IntBits + FracBits
ONE == Pow2(FracBits)
FxMin == 0 - Pow2(Width - 1)
FxMax == Pow2(Width - 1) - 1
FxModulus == Pow2(Width)

\* Assignment of a wider value to a Signal(FixedPoint): the high bits are dropped.
Wrap(v) == ((v - FxMin) % FxModulus) + FxMin

\* reshape(f_bits) of a product of two fixed-point values: the low FracBits
\* fractional bits are dropped (arithmetic shift right, i.e. floor).
MulReshape(a, b) == (a * b) \div ONE

Abs(v) == IF v < 0 THEN 0 - v ELSE v
Min(a, b) == IF a < b THEN a ELSE b

\* FixedPointInv: approximation of 1/d in FixedPoint, same sign as d.  The
\* quotient is truncated toward zero and saturates at the largest value.
Recip(d) ==
    LET q == Min((ONE * ONE) \div Abs(d), FxMax)
    IN  IF d < 0 THEN 0 - q ELSE q

\* The answers the reciprocal unit can give: 1/0 is undefined.
RecipResults(d) == IF d = 0 THEN {0, FxMax} ELSE {Recip(d)}

\* ------------------------------------------------------- vertices
\* RasterizerLayout: position_ndc (x, y, z, w), color, texcoords, front_facing.
\* color and texcoords stand for each of their components: every component
\* goes through the same interpolation.
Vtx(x, y, z, w, c, tc) ==
    [position_ndc |-> <<x, y, z, w>>, color |-> c, texcoords |-> tc, front_facing |-> 1]

\* reset value of a Signal(RasterizerLayout)
ZeroVertex ==
    [position_ndc |-> <<0, 0, 0, 0>>, color |-> 0, texcoords |-> 0, front_facing |-> 0]

X(v) == v.position_ndc[1]
Y(v) == v.position_ndc[2]
Z(v) == v.position_ndc[3]
W(v) == v.position_ndc[4]

\* Vertices the producer can present.  (x, y, z, w) in raw units, ONE = 1.0.
\*   1-3  Scenario A, inside the volume       4  Scenario B, outside +x only
\*   5    strictly inside                     6  outside -y only
\*   7-9  large coordinates, w > 0            10 w at the most negative value
VertexPool ==
    { Vtx(0, 0, 0, ONE, ONE, 0),
      Vtx(ONE, 0, 0, ONE, 0, ONE),
      Vtx(0, ONE, 0, ONE, 0, 0),
      Vtx(2 * ONE, 0, 0, ONE, ONE, ONE),
      Vtx(1, -2, 1, ONE, 2, 3),
      Vtx(0, 0 - 2 * ONE, 0, ONE, 3, 1),
      Vtx(0 - 4 * ONE, 2 * ONE, 0, 12 * ONE, 1, 1),
      Vtx(0, 0, 0, 15 * ONE, 2, 2),
      Vtx(0 - 4 * ONE, 0 - 2 * ONE, 0, 2 * ONE, 3, 3),
      Vtx(22, 36, 55, FxMin, 0, 2) }

\* PrimitiveType
POINTS == 0
LINES == 1
TRIANGLES == 2
PrimitiveTypes == {POINTS, LINES, TRIANGLES}

\* ------------------------------------------------------- clipper helpers
Planes == 0 .. 5

\* coordinate tested by plane p: 0,1 -> x; 2,3 -> y; 4,5 -> z
PlaneCoord(p, v) == v.position_ndc[(p \div 2) + 1]

\* A clip code that tests only the upper planes x > w, y > w, z > w.
ClipCodeUpperOnly(v) ==
    { p \in Planes : p % 2 = 0 /\ PlaneCoord(p, v) > W(v) }

\* compute_clip_code: the set of planes the vertex violates (exact comparisons)
ClipCode(v) ==
    { p \in Planes :
        IF p % 2 = 0 THEN PlaneCoord(p, v) > W(v)
                     ELSE PlaneCoord(p, v) < 0 - W(v) }

\* curr_dist / next_dist: a Signal(FixedPoint) holding w - coord or coord + w
PlaneDist(p, v) ==
    IF p % 2 = 0 THEN Wrap(W(v) - PlaneCoord(p, v))
                 ELSE Wrap(PlaneCoord(p, v) + W(v))

\* lerp(a, b, t): a + reshape(t * (b - a)), not yet narrowed
Lerp(a, b, t) == a + MulReshape(t, b - a)

\* The vertex CLIP_APPLY stores for the intersection of edge (cv, nv) with plane p.
IntersectVertex(p, cv, nv, t) ==
    LET pos == [i \in 1 .. 4 |-> Lerp(cv.position_ndc[i], nv.position_ndc[i], t)]
        k == (p \div 2) + 1
        pos_clamped ==
            [i \in 1 .. 4 |->
                IF i = k THEN (IF p % 2 = 0 THEN pos[4] ELSE 0 - pos[4])
                         ELSE pos[i]]
    IN  [position_ndc |-> [i \in 1 .. 4 |-> Wrap(pos_clamped[i])],
         color |-> Wrap(Lerp(cv.color, nv.color, t)),
         texcoords |-> Wrap(Lerp(cv.texcoords, nv.texcoords, t)),
         front_facing |-> cv.front_facing]

\* Array of 9 slots: an index past the end selects the last element.
Slot(i) == Min(i, 8)

\* ------------------------------------------------------- state
VARIABLES
    state,          \* clipper FSM state
    prim_type,      \* input register
    buf, idx,       \* collect buffer and index
    clip_buf, clip_count, clip_src, clip_plane, clip_idx,
    t_num, t_den, t_recip, emit_next, edge_curr_idx, edge_next_idx,
    w_out,          \* input stage of WideStreamOutput: i.valid, i.p, n.valid, n.p
    inv_busy, inv_arg,  \* the clipper's reciprocal unit: a request in flight
    emitted,        \* history: triangles written to w_out for the current primitive
    created,        \* history: the intersection vertex stored last, with its plane
    nprims          \* history: primitives whose first vertex was accepted

clipVars ==
    << state, prim_type, buf, idx, clip_buf, clip_count, clip_src, clip_plane,
       clip_idx, t_num, t_den, t_recip, emit_next, edge_curr_idx, edge_next_idx,
       w_out, inv_busy, inv_arg, emitted, created, nprims >>

\* TriangleRasterizer
VARIABLES
    rast_state,     \* rasterizer FSM state
    fb_info,        \* framebuffer configuration input (viewport and scissor)
    vtx, vtx_idx,   \* triangle vertex buffer and index
    screen_x, screen_y,
    min_x, min_y, max_x, max_y,
    px, py,
    w0, w1, w2, area, area_recip,
    inv_w_sum, inv_w_sum_recip, depth_num, color_num, texcoord_num,
    rast_inv_busy, rast_inv_arg,    \* the rasterizer's reciprocal unit: a request in flight
    os_fragment,    \* payload of the fragment the consumer took last
    frags,          \* history: pixel and scan position of each fragment of the current triangle
    stall_cycles,   \* history: cycles the fragment on offer has waited for os_fragment.ready
    ntris           \* history: triangles whose first vertex was accepted

rastVars ==
    << rast_state, fb_info, vtx, vtx_idx, screen_x, screen_y, min_x, min_y, max_x,
       max_y, px, py, w0, w1, w2, area, area_recip, inv_w_sum, inv_w_sum_recip,
       depth_num, color_num, texcoord_num, rast_inv_busy, rast_inv_arg,
       os_fragment, frags, stall_cycles, ntris >>

\* PrimitiveAssembly
VARIABLES
    pa_prim_type,   \* CSR prim_type of the primitive assembly
    prim_cull,      \* cull mode the driver asks for; the unit has no register for it
    prim_winding,   \* front face the driver asks for; the unit has no register for it
    is_vertex,      \* input stream wires: valid, p
    os_primitive,   \* output stream registers: valid, p
    pa_input,       \* the vertices the producer has to send
    pa_accepted,    \* history: input vertices transferred (valid and ready)
    pa_out          \* history: output vertices transferred (valid and ready)

paVars ==
    << pa_prim_type, prim_cull, prim_winding, is_vertex, os_primitive, pa_input,
       pa_accepted, pa_out >>

\* IndexGenerator
VARIABLES
    ig_state,       \* index generator FSM state
    ig_config,      \* CSR index_input: address, count, kind
    ig_address,     \* register address
    cur_idx,        \* register cur_idx
    data_read,      \* register data_read
    index_stream,   \* output stream registers: valid, payload
    ig_master,      \* bus request registers: cyc, stb, adr, sel
    ig_out,         \* history: indices transferred since the last start
    ig_runs,        \* history: writes of 1 to the start register
    ig_stalled      \* history: an index on offer has waited for index_stream.ready

igVars ==
    << ig_state, ig_config, ig_address, cur_idx, data_read, index_stream, ig_master,
       ig_out, ig_runs, ig_stalled >>

\* InputAssembly
VARIABLES
    ia_state,       \* input assembly FSM state, without its attribute and component number
    ia_attr_no,     \* attribute number of the FSM state
    ia_comp,        \* component number of the FSM state
    ia_attrs,       \* CSR vertex_input_attributes: one description per attribute
    ia_idx,         \* register idx
    ia_vtx,         \* register vtx: the components of each attribute
    ia_addr,        \* the registers addr, one per attribute
    vertex_stream,  \* output stream registers: valid, payload
    ia_bus,         \* bus request registers: cyc, stb, adr
    ia_in,          \* history: indices accepted
    ia_out          \* history: vertices transferred

iaVars ==
    << ia_state, ia_attr_no, ia_comp, ia_attrs, ia_idx, ia_vtx, ia_addr, vertex_stream,
       ia_bus, ia_in, ia_out >>

\* VertexTransform
VARIABLES
    vt_state,       \* vertex transform FSM state, without its attribute, row and column
    vt_attr,        \* attribute number of the FSM state
    vt_i, vt_j,     \* row and column of the FSM state
    vt_enabled,     \* input enabled: normal, texture
    position_mv, position_p, normal_mv_inv_t, texture_transforms,   \* matrix inputs
    i_data,         \* register i_data
    o_data,         \* register o_data
    cum_result,     \* register cum_result
    os_vertex,      \* output stream registers: valid, payload
    vt_in,          \* history: vertices accepted
    vt_out          \* history: vertices transferred

vtVars ==
    << vt_state, vt_attr, vt_i, vt_j, vt_enabled, position_mv, position_p,
       normal_mv_inv_t, texture_transforms, i_data, o_data, cum_result, os_vertex,
       vt_in, vt_out >>

\* InputTopologyProcessor
VARIABLES
    itp_config,     \* CSR topology: input_topology, primitive_restart_enable, primitive_restart_index
    v1, v2,         \* registers v1, v2
    vertex_count,   \* register vertex_count
    to_send,        \* register to_send
    to_send_left,   \* register to_send_left
    index_stream_output,    \* output stream registers: valid, payload
    itp_input,      \* the indices the producer still has to send
    itp_in,         \* history: indices accepted
    itp_gen,        \* history: output indices the accepted indices have produced
    itp_out         \* history: output indices transferred

itpVars ==
    << itp_config, v1, v2, vertex_count, to_send, to_send_left, index_stream_output,
       itp_input, itp_in, itp_gen, itp_out >>

\* the units in front of the clipper
frontVars == << paVars, igVars, iaVars, vtVars, itpVars >>

\* everything but one unit's variables
notPa == << clipVars, rastVars, igVars, iaVars, vtVars, itpVars >>
notIg == << clipVars, rastVars, paVars, iaVars, vtVars, itpVars >>
notIa == << clipVars, rastVars, paVars, igVars, vtVars, itpVars >>
notVt == << clipVars, rastVars, paVars, igVars, iaVars, itpVars >>
notItp == << clipVars, rastVars, paVars, igVars, iaVars, vtVars >>

vars == << clipVars, rastVars, frontVars >>

needed == IF prim_type = POINTS THEN 1 ELSE IF prim_type = LINES THEN 2 ELSE 3

\* is_vertex.ready of the clipper and of the rasterizer: asserted in COLLECT
is_vertex_ready == state = "COLLECT"
rast_is_vertex_ready == rast_state = "COLLECT"

\* ready of the clipper: asserted in COLLECT
clip_ready == state = "COLLECT"

NoVertex == [plane |-> 6, v |-> ZeroVertex]

\* reset values of the clipper's registers
ClipRegsReset ==
    /\ buf = [i \in 0 .. 2 |-> ZeroVertex]
    /\ idx = 0
    /\ clip_buf = [b \in 0 .. 1 |-> [i \in 0 .. 8 |-> ZeroVertex]]
    /\ clip_count = [b \in 0 .. 1 |-> 0]
    /\ clip_src = 0
    /\ clip_plane = 0
    /\ clip_idx = 0
    /\ t_num = 0
    /\ t_den = 0
    /\ t_recip = 0
    /\ emit_next = 0
    /\ edge_curr_idx = 0
    /\ edge_next_idx = 0
    /\ w_out = [i_valid |-> 0, n_valid |-> 0,
                i_p |-> [i \in 0 .. 2 |-> ZeroVertex], n_p |-> 0]
    /\ inv_busy = FALSE
    /\ inv_arg = 0
    /\ emitted = << >>
    /\ created = NoVertex
    /\ nprims = 0

\* ------------------------------------------------------- clipper actions
\* state COLLECT: accept one vertex; at most limit primitives are presented
CollectVertex(v, limit) ==
    /\ state = "COLLECT"
    /\ idx # 0 \/ nprims < limit
    /\ buf' = [buf EXCEPT ![idx] = v]
    /\ IF idx = needed - 1
         THEN /\ idx' = 0
              /\ state' = "CHECK"
         ELSE /\ idx' = idx + 1
              /\ state' = state
    /\ nprims' = IF idx = 0 THEN nprims + 1 ELSE nprims
    /\ emitted' = IF idx = 0 THEN << >> ELSE emitted
    /\ created' = IF idx = 0 THEN NoVertex ELSE created
    /\ UNCHANGED << prim_type, clip_buf, clip_count, clip_src, clip_plane, clip_idx,
                    t_num, t_den, t_recip, emit_next, edge_curr_idx, edge_next_idx,
                    w_out, inv_busy, inv_arg >>
    /\ UNCHANGED << rastVars, frontVars >>

Collect(v) == CollectVertex(v, MaxPrims)

\* An accept test that also sends vertices lying on a plane to the clip passes.
TrivialAcceptStrict ==
    \A i \in 0 .. 2 : \A k \in 1 .. 3 :
        /\ buf[i].position_ndc[k] < W(buf[i])
        /\ buf[i].position_ndc[k] > 0 - W(buf[i])

\* The three outcomes of state CHECK.
TrivialReject == (ClipCode(buf[0]) \cap ClipCode(buf[1]) \cap ClipCode(buf[2])) # {}
TrivialAccept == (ClipCode(buf[0]) \cup ClipCode(buf[1]) \cup ClipCode(buf[2])) = {}

\* A test of the output stage that looks at the vertex word only.
OutputFreeWordOnly == w_out.i_valid = 0

OutputFree == w_out.i_valid = 0 /\ w_out.n_valid = 0

\* state CHECK
Check ==
    /\ state = "CHECK"
    /\ IF TrivialReject
         THEN /\ state' = "COLLECT"
              /\ UNCHANGED << w_out, emitted >>
         ELSE IF TrivialAccept
           THEN /\ OutputFree
                /\ w_out' = [i_valid |-> 1, n_valid |-> 1, i_p |-> buf, n_p |-> needed]
                /\ emitted' = Append(emitted, [p |-> buf, n |-> needed])
                /\ state' = "COLLECT"
           ELSE /\ state' = "CLIP"
                /\ UNCHANGED << w_out, emitted >>
    /\ UNCHANGED << prim_type, buf, idx, clip_buf, clip_count, clip_src, clip_plane,
                    clip_idx, t_num, t_den, t_recip, emit_next, edge_curr_idx,
                    edge_next_idx, inv_busy, inv_arg, created, nprims >>
    /\ UNCHANGED << rastVars, frontVars >>

\* state CLIP
Clip ==
    /\ state = "CLIP"
    /\ IF needed = 3
         THEN /\ clip_buf' = [clip_buf EXCEPT ![0] =
                    [i \in 0 .. 8 |-> IF i <= 2 THEN buf[i] ELSE clip_buf[0][i]]]
              /\ clip_count' = [clip_count EXCEPT ![0] = 3]
              /\ clip_plane' = 0
              /\ clip_src' = 0
              /\ state' = "CLIP_PLANE"
         ELSE /\ state' = "COLLECT"
              /\ UNCHANGED << clip_buf, clip_count, clip_plane, clip_src >>
    /\ UNCHANGED << prim_type, buf, idx, clip_idx, t_num, t_den, t_recip, emit_next,
                    edge_curr_idx, edge_next_idx, w_out, inv_busy, inv_arg,
                    emitted, created, nprims >>
    /\ UNCHANGED << rastVars, frontVars >>

\* state CLIP_PLANE
ClipPlane ==
    /\ state = "CLIP_PLANE"
    /\ IF clip_count[clip_src] = 0 \/ clip_plane > 5
         THEN /\ state' = "CLIP_EMIT"
              /\ UNCHANGED << clip_count, clip_idx >>
         ELSE /\ clip_count' = [clip_count EXCEPT ![1 - clip_src] = 0]
              /\ clip_idx' = 0
              /\ state' = "CLIP_EDGE"
    /\ UNCHANGED << prim_type, buf, idx, clip_buf, clip_src, clip_plane, t_num, t_den,
                    t_recip, emit_next, edge_curr_idx, edge_next_idx, w_out,
                    inv_busy, inv_arg, emitted, created, nprims >>
    /\ UNCHANGED << rastVars, frontVars >>

\* A continuation that starts over with the same plane after the last edge.
NextEdgeSamePlane(edge_state) ==
    IF clip_idx = clip_count[clip_src] - 1
      THEN /\ clip_src' = 1 - clip_src
           /\ clip_idx' = clip_idx
           /\ clip_plane' = clip_plane
           /\ state' = "CLIP_PLANE"
      ELSE /\ clip_idx' = (clip_idx + 1) % 16
           /\ state' = edge_state
           /\ UNCHANGED << clip_src, clip_plane >>

\* "Continue to next edge or next plane", shared by CLIP_EDGE and CLIP_APPLY.
\* edge_state is the state entered when more edges of this plane remain.
NextEdge(edge_state) ==
    IF clip_idx = clip_count[clip_src] - 1
      THEN /\ clip_src' = 1 - clip_src
           /\ clip_idx' = clip_idx
           /\ IF clip_plane = 5
                THEN /\ state' = "CLIP_EMIT"
                     /\ clip_plane' = clip_plane
                ELSE /\ clip_plane' = clip_plane + 1
                     /\ state' = "CLIP_PLANE"
      ELSE /\ clip_idx' = (clip_idx + 1) % 16
           /\ state' = edge_state
           /\ UNCHANGED << clip_src, clip_plane >>

\* A denominator that adds the two distances.
EdgeDenominatorSum(curr_dist, next_dist) == Wrap(curr_dist + next_dist)

\* t_den.eq(curr_dist - next_dist)
EdgeDenominator(curr_dist, next_dist) == Wrap(curr_dist - next_dist)

\* state CLIP_EDGE
ClipEdge ==
    /\ state = "CLIP_EDGE"
    /\ LET src == clip_src
           dst == 1 - clip_src
           curr_idx == clip_idx
           next_idx == IF clip_idx = clip_count[src] - 1 THEN 0 ELSE (clip_idx + 1) % 16
           curr_v == clip_buf[src][Slot(curr_idx)]
           next_v == clip_buf[src][Slot(next_idx)]
           curr_dist == PlaneDist(clip_plane, curr_v)
           next_dist == PlaneDist(clip_plane, next_v)
           curr_inside == curr_dist >= 0
           next_inside == next_dist >= 0
           out_count == clip_count[dst]
       IN  /\ edge_curr_idx' = curr_idx
           /\ edge_next_idx' = next_idx
           /\ IF curr_inside /\ next_inside
                THEN /\ clip_buf' = [clip_buf EXCEPT ![dst][Slot(out_count)] = next_v]
                     /\ clip_count' = [clip_count EXCEPT ![dst] = (out_count + 1) % 16]
                     /\ NextEdge("CLIP_EDGE")
                     /\ UNCHANGED << t_num, t_den, emit_next >>
                ELSE IF curr_inside # next_inside
                  THEN /\ t_num' = curr_dist
                       /\ t_den' = EdgeDenominator(curr_dist, next_dist)
                       /\ emit_next' = IF curr_inside THEN 0 ELSE 1
                       /\ state' = "CLIP_INV_REQ"
                       /\ UNCHANGED << clip_buf, clip_count, clip_src, clip_plane,
                                       clip_idx >>
                  ELSE /\ NextEdge("CLIP_EDGE")
                       /\ UNCHANGED << clip_buf, clip_count, t_num, t_den, emit_next >>
    /\ UNCHANGED << prim_type, buf, idx, t_recip, w_out, inv_busy, inv_arg,
                    emitted, created, nprims >>
    /\ UNCHANGED << rastVars, frontVars >>

\* state CLIP_INV_REQ: the reciprocal unit takes the request
ClipInvReq ==
    /\ state = "CLIP_INV_REQ"
    /\ ~inv_busy
    /\ inv_busy' = TRUE
    /\ inv_arg' = t_den
    /\ state' = "CLIP_INV_WAIT"
    /\ UNCHANGED << prim_type, buf, idx, clip_buf, clip_count, clip_src, clip_plane,
                    clip_idx, t_num, t_den, t_recip, emit_next, edge_curr_idx,
                    edge_next_idx, w_out, emitted, created, nprims >>
    /\ UNCHANGED << rastVars, frontVars >>

\* state CLIP_INV_WAIT: the reciprocal unit answers
ClipInvWait ==
    /\ state = "CLIP_INV_WAIT"
    /\ inv_busy
    /\ \E r \in RecipResults(inv_arg) : t_recip' = r
    /\ inv_busy' = FALSE
    /\ state' = "CLIP_APPLY"
    /\ UNCHANGED << prim_type, buf, idx, clip_buf, clip_count, clip_src, clip_plane,
                    clip_idx, t_num, t_den, emit_next, edge_curr_idx, edge_next_idx,
                    w_out, inv_arg, emitted, created, nprims >>
    /\ UNCHANGED << rastVars, frontVars >>

\* state CLIP_APPLY
ClipApply ==
    /\ state = "CLIP_APPLY"
    /\ LET src == clip_src
           dst == 1 - clip_src
           curr_v == clip_buf[src][Slot(edge_curr_idx)]
           next_v == clip_buf[src][Slot(edge_next_idx)]
           out_count == clip_count[dst]
           t == Wrap(MulReshape(t_num, t_recip))
           new_v == IntersectVertex(clip_plane, curr_v, next_v, t)
           with_new == [clip_buf[dst] EXCEPT ![Slot(out_count)] = new_v]
       IN  /\ IF emit_next = 1
                THEN /\ clip_buf' = [clip_buf EXCEPT ![dst] =
                            [with_new EXCEPT ![Slot(out_count + 1)] = next_v]]
                     /\ clip_count' = [clip_count EXCEPT ![dst] = (out_count + 2) % 16]
                ELSE /\ clip_buf' = [clip_buf EXCEPT ![dst] = with_new]
                     /\ clip_count' = [clip_count EXCEPT ![dst] = (out_count + 1) % 16]
           /\ created' = [plane |-> clip_plane, v |-> new_v]
    /\ NextEdge("CLIP_EDGE")
    /\ UNCHANGED << prim_type, buf, idx, t_num, t_den, t_recip, emit_next,
                    edge_curr_idx, edge_next_idx, w_out, inv_busy, inv_arg,
                    emitted, nprims >>
    /\ UNCHANGED << rastVars, frontVars >>

\* state CLIP_EMIT
ClipEmit ==
    /\ state = "CLIP_EMIT"
    /\ IF clip_count[clip_src] < 3
         THEN /\ state' = "COLLECT"
              /\ clip_idx' = clip_idx
         ELSE /\ clip_idx' = 2
              /\ state' = "CLIP_OUTPUT"
    /\ UNCHANGED << prim_type, buf, idx, clip_buf, clip_count, clip_src, clip_plane,
                    t_num, t_den, t_recip, emit_next, edge_curr_idx, edge_next_idx,
                    w_out, inv_busy, inv_arg, emitted, created, nprims >>
    /\ UNCHANGED << rastVars, frontVars >>

\* A fan that ends with its first triangle.
LastFanTriangleAlways == TRUE

\* CLIP_OUTPUT: the triangle being written is the last one of the fan
LastFanTriangle == clip_idx = clip_count[clip_src] - 1

\* A strip triangle (i - 2, i - 1, i) instead of the fan triangle.
StripTriangle(final_buf, i) == [j \in 0 .. 2 |-> final_buf[Slot(i - 2 + j)]]

\* out_vertices: the fan triangle (0, i - 1, i) of the polygon in final_buf
FanTriangle(final_buf, i) ==
    [j \in 0 .. 2 |->
        IF j = 0 THEN final_buf[0]
        ELSE IF j = 1 THEN final_buf[Slot(i - 1)]
        ELSE final_buf[Slot(i)]]

\* state CLIP_OUTPUT: write fan triangle (0, clip_idx - 1, clip_idx)
ClipOutput ==
    /\ state = "CLIP_OUTPUT"
    /\ OutputFree
    /\ LET out_vertices == FanTriangle(clip_buf[clip_src], clip_idx)
       IN  /\ w_out' = [i_valid |-> 1, n_valid |-> 1, i_p |-> out_vertices, n_p |-> 3]
           /\ emitted' = Append(emitted, [p |-> out_vertices, n |-> 3])
    /\ IF LastFanTriangle
         THEN /\ state' = "COLLECT"
              /\ clip_idx' = clip_idx
         ELSE /\ clip_idx' = (clip_idx + 1) % 16
              /\ state' = state
    /\ UNCHANGED << prim_type, buf, idx, clip_buf, clip_count, clip_src, clip_plane,
                    t_num, t_den, t_recip, emit_next, edge_curr_idx, edge_next_idx,
                    inv_busy, inv_arg, created, nprims >>
    /\ UNCHANGED << rastVars, frontVars >>

\* with m.If(w_out.i.ready): w_out.i.valid.eq(0)
WOutTakeI ==
    /\ w_out.i_valid = 1
    /\ w_out' = [w_out EXCEPT !.i_valid = 0]
    /\ UNCHANGED << state, prim_type, buf, idx, clip_buf, clip_count, clip_src,
                    clip_plane, clip_idx, t_num, t_den, t_recip, emit_next,
                    edge_curr_idx, edge_next_idx, inv_busy, inv_arg, emitted,
                    created, nprims >>
    /\ UNCHANGED << rastVars, frontVars >>

\* with m.If(w_out.n.ready): w_out.n.valid.eq(0)
WOutTakeN ==
    /\ w_out.n_valid = 1
    /\ w_out' = [w_out EXCEPT !.n_valid = 0]
    /\ UNCHANGED << state, prim_type, buf, idx, clip_buf, clip_count, clip_src,
                    clip_plane, clip_idx, t_num, t_den, t_recip, emit_next,
                    edge_curr_idx, edge_next_idx, inv_busy, inv_arg, emitted,
                    created, nprims >>
    /\ UNCHANGED << rastVars, frontVars >>

ClipNext ==
    \/ \E v \in VertexPool : Collect(v)
    \/ Check
    \/ Clip
    \/ ClipPlane
    \/ ClipEdge
    \/ ClipInvReq
    \/ ClipInvWait
    \/ ClipApply
    \/ ClipEmit
    \/ ClipOutput
    \/ WOutTakeI
    \/ WOutTakeN

\* ---------------------------------------- clipper: successive primitives
\* number of primitives presented in a behaviour of HistSpec
MaxHistPrims == 2

\* vertices of the successive primitives: two inside the volume, one outside +x
HistPool ==
    { Vtx(0, 0, 0, ONE, 1, 1),
      Vtx(ONE, 0, 0, ONE, 2, 2),
      Vtx(2 * ONE, 0, 0, ONE, 3, 3) }

\* the topology input changes between two primitives
SetPrimType(t) ==
    /\ state = "COLLECT"
    /\ idx = 0
    /\ nprims >= 1
    /\ nprims < MaxHistPrims
    /\ t # prim_type
    /\ prim_type' = t
    /\ UNCHANGED << state, buf, idx, clip_buf, clip_count, clip_src, clip_plane,
                    clip_idx, t_num, t_den, t_recip, emit_next, edge_curr_idx,
                    edge_next_idx, w_out, inv_busy, inv_arg, emitted, created,
                    nprims >>
    /\ UNCHANGED << rastVars, frontVars >>

HistNext ==
    \/ \E v \in HistPool : CollectVertex(v, MaxHistPrims)
    \/ \E t \in PrimitiveTypes : SetPrimType(t)
    \/ Check
    \/ Clip
    \/ ClipPlane
    \/ ClipEdge
    \/ ClipInvReq
    \/ ClipInvWait
    \/ ClipApply
    \/ ClipEmit
    \/ ClipOutput
    \/ WOutTakeI
    \/ WOutTakeN

\* ------------------------------------------------------- rasterizer helpers
\* number of triangles presented to the rasterizer in one behaviour
MaxTris == 1

\* Framebuffer configurations.  Viewport fields are fixed point (raw), scissor
\* fields are unsigned integers (pixels).
Fb(vx, vy, vw, vh, sx, sy, sw, sh) ==
    [viewport_x |-> vx, viewport_y |-> vy, viewport_width |-> vw, viewport_height |-> vh,
     scissor_offset_x |-> sx, scissor_offset_y |-> sy,
     scissor_width |-> sw, scissor_height |-> sh]

\* 8 x 8 framebuffer, viewport covering it, scissor equal to the framebuffer
FullFramebuffer == Fb(0, 0, 8 * ONE, 8 * ONE, 0, 0, 8, 8)

FbConfigs ==
    { FullFramebuffer,
      Fb(0, 0, 8 * ONE, 8 * ONE, 0, 0, 2, 2),
      Fb(0, 0, 8 * ONE, 8 * ONE, 1, 2, 3, 2),
      Fb(2, 1, 8 * ONE, 8 * ONE, 0, 0, 8, 8),
      Fb(0, 0, 8 * ONE, 8 * ONE, 1, 0, 0, 4) }

\* Vertices presented to the rasterizer (NDC x, y in [-1, 1]).  With the 8 x 8
\* viewport at the origin they land on pixels (0,0) (4,0) (0,4) (2,2) (5,1).
RastVertexPool ==
    { Vtx(0 - ONE, 0 - ONE, 0, ONE, ONE, 0),
      Vtx(0, 0 - ONE, 2, ONE, 0, ONE),
      Vtx(0 - ONE, 0, ONE, 2 * ONE, 0, 0),
      Vtx(-2, -2, 1, ONE, 2, 2),
      Vtx(1, -3, 3, ONE, 3, 1) }

\* number of fragments of one triangle the history frags records
MaxFrags == 40

\* A viewport reaching the top of the coordinate range (x from 0.75 to 15.75)
\* and a scissor rectangle of the largest width at offset 2.
TopEdgeFramebuffer == Fb(3, 0, 15 * ONE, 8 * ONE, 2, 0, 15, 8)

EdgeFbConfigs == { FullFramebuffer, TopEdgeFramebuffer }

\* Vertices at the corners of the viewport (NDC x, y in {-1, 0, 1}).
EdgePool ==
    { Vtx(0 - ONE, 0 - ONE, 0, ONE, ONE, 0),
      Vtx(ONE, 0 - ONE, 2, ONE, 0, ONE),
      Vtx(0 - ONE, 0, ONE, ONE, 0, 0) }

\* edge_fn: (B - A) x (C - A), full precision
edge_fn(ax, ay, bx, by, cx, cy) == (bx - ax) * (cy - ay) - (by - ay) * (cx - ax)

\* Assignment of a product of two fixed-point values to a Signal(FixedPoint)
Narrow2(v) == Wrap(v \div ONE)
\* ... and of a product of three
Narrow3(v) == Wrap(v \div (ONE * ONE))

\* SETUP: viewport transform of one NDC coordinate
ViewportTransform(origin, ndc, extent) ==
    Wrap(origin + MulReshape(ndc + ONE, extent \div 2))

Min3(a, b, c) == IF a < b THEN (IF a < c THEN a ELSE c) ELSE (IF b < c THEN b ELSE c)
Max3(a, b, c) == IF a > b THEN (IF a > c THEN a ELSE c) ELSE (IF b > c THEN b ELSE c)

bb_min_x == Min3(screen_x[0], screen_x[1], screen_x[2])
bb_min_y == Min3(screen_y[0], screen_y[1], screen_y[2])
bb_max_x == Max3(screen_x[0], screen_x[1], screen_x[2])
bb_max_y == Max3(screen_y[0], screen_y[1], screen_y[2])

\* scissor rectangle bounds as fixed-point values
scissor_x == fb_info.scissor_offset_x * ONE
scissor_y == fb_info.scissor_offset_y * ONE
scissor_max_x == scissor_x + fb_info.scissor_width * ONE - ONE
scissor_max_y == scissor_y + fb_info.scissor_height * ONE - ONE

completely_outside ==
    \/ bb_max_x < scissor_x
    \/ bb_max_y < scissor_y
    \/ bb_min_x > scissor_max_x
    \/ bb_min_y > scissor_max_y

\* A coverage test that accepts one winding only.
InsideNonNegativeOnly(e0, e1, e2) == e0 >= 0 /\ e1 >= 0 /\ e2 >= 0

\* SCAN: all edge values non-negative or all non-positive
Inside(e0, e1, e2) ==
    \/ (e0 >= 0 /\ e1 >= 0 /\ e2 >= 0)
    \/ (e0 <= 0 /\ e1 <= 0 /\ e2 <= 0)

\* px.truncate() into coord_pos, an unsigned field one bit narrower than the
\* integer part of FixedPoint
Truncate(v) == (v \div ONE) % Pow2(IntBits - 1)

\* reset values of the rasterizer's registers
RastRegsReset ==
    /\ vtx = [i \in 0 .. 2 |-> ZeroVertex]
    /\ vtx_idx = 0
    /\ screen_x = [i \in 0 .. 2 |-> 0]
    /\ screen_y = [i \in 0 .. 2 |-> 0]
    /\ min_x = 0 /\ min_y = 0 /\ max_x = 0 /\ max_y = 0
    /\ px = 0 /\ py = 0
    /\ w0 = 0 /\ w1 = 0 /\ w2 = 0
    /\ area = 0 /\ area_recip = 0
    /\ inv_w_sum = 0 /\ inv_w_sum_recip = 0
    /\ depth_num = 0 /\ color_num = 0 /\ texcoord_num = 0
    /\ rast_inv_busy = FALSE
    /\ rast_inv_arg = 0
    /\ os_fragment = [coord_pos |-> << 0, 0 >>, depth |-> 0, color |-> 0, texcoords |-> 0]
    /\ frags = << >>
    /\ stall_cycles = 0
    /\ ntris = 0

\* ------------------------------------------------------- rasterizer actions
\* state COLLECT
RastCollect(v) ==
    /\ rast_state = "COLLECT"
    /\ vtx_idx # 0 \/ ntris < MaxTris
    /\ vtx' = [vtx EXCEPT ![vtx_idx] = v]
    /\ IF vtx_idx = 2
         THEN /\ vtx_idx' = 0
              /\ rast_state' = "SETUP"
         ELSE /\ vtx_idx' = vtx_idx + 1
              /\ rast_state' = rast_state
    /\ ntris' = IF vtx_idx = 0 THEN ntris + 1 ELSE ntris
    /\ frags' = IF vtx_idx = 0 THEN << >> ELSE frags
    /\ UNCHANGED << stall_cycles, fb_info, os_fragment, screen_x, screen_y, min_x, min_y, max_x, max_y, px, py,
                    w0, w1, w2, area, area_recip, inv_w_sum, inv_w_sum_recip,
                    depth_num, color_num, texcoord_num, rast_inv_busy, rast_inv_arg >>
    /\ UNCHANGED << clipVars, frontVars >>

\* state SETUP
Setup ==
    /\ rast_state = "SETUP"
    /\ screen_x' = [i \in 0 .. 2 |->
            ViewportTransform(fb_info.viewport_x, X(vtx[i]), fb_info.viewport_width)]
    /\ screen_y' = [i \in 0 .. 2 |->
            ViewportTransform(fb_info.viewport_y, Y(vtx[i]), fb_info.viewport_height)]
    /\ rast_state' = "BOUNDING_BOX"
    /\ UNCHANGED << stall_cycles, fb_info, os_fragment, vtx, vtx_idx, min_x, min_y, max_x, max_y, px, py,
                    w0, w1, w2, area, area_recip, inv_w_sum, inv_w_sum_recip,
                    depth_num, color_num, texcoord_num, rast_inv_busy, rast_inv_arg,
                    frags, ntris >>
    /\ UNCHANGED << clipVars, frontVars >>

\* state BOUNDING_BOX.  area and the box are registered at the clock edge; the
\* reciprocal request made during the cycle carries the value the area register
\* holds before that edge.  inv_ready: the reciprocal unit takes the request in
\* this cycle.
BoundingBox(inv_ready) ==
    /\ rast_state = "BOUNDING_BOX"
    /\ area' = Narrow2(edge_fn(screen_x[0], screen_y[0], screen_x[1], screen_y[1],
                               screen_x[2], screen_y[2]))
    /\ min_x' = IF bb_min_x < scissor_x THEN scissor_x ELSE bb_min_x
    /\ min_y' = IF bb_min_y < scissor_y THEN scissor_y ELSE bb_min_y
    /\ max_x' = IF bb_max_x > scissor_max_x THEN Wrap(scissor_max_x) ELSE bb_max_x
    /\ max_y' = IF bb_max_y > scissor_max_y THEN Wrap(scissor_max_y) ELSE bb_max_y
    /\ IF completely_outside
         THEN /\ rast_state' = "COLLECT"
              /\ UNCHANGED << rast_inv_busy, rast_inv_arg >>
         ELSE IF inv_ready /\ ~rast_inv_busy
           THEN /\ rast_inv_busy' = TRUE
                /\ rast_inv_arg' = area
                /\ rast_state' = "AREA_RECIP_WAIT"
           ELSE /\ rast_state' = rast_state
                /\ UNCHANGED << rast_inv_busy, rast_inv_arg >>
    /\ UNCHANGED << stall_cycles, fb_info, os_fragment, vtx, vtx_idx, screen_x, screen_y, px, py, w0, w1, w2,
                    area_recip, inv_w_sum, inv_w_sum_recip, depth_num, color_num,
                    texcoord_num, frags, ntris >>
    /\ UNCHANGED << clipVars, frontVars >>

\* state AREA_RECIP_WAIT: the reciprocal unit answers
AreaRecipWait ==
    /\ rast_state = "AREA_RECIP_WAIT"
    /\ rast_inv_busy
    /\ \E r \in RecipResults(rast_inv_arg) : area_recip' = r
    /\ rast_inv_busy' = FALSE
    /\ rast_state' = "SCAN_INIT"
    /\ UNCHANGED << stall_cycles, fb_info, os_fragment, vtx, vtx_idx, screen_x, screen_y, min_x, min_y, max_x,
                    max_y, px, py, w0, w1, w2, area, inv_w_sum, inv_w_sum_recip,
                    depth_num, color_num, texcoord_num, rast_inv_arg, frags, ntris >>
    /\ UNCHANGED << clipVars, frontVars >>

\* state SCAN_INIT
ScanInit ==
    /\ rast_state = "SCAN_INIT"
    /\ px' = min_x
    /\ py' = min_y
    /\ rast_state' = "SCAN"
    /\ UNCHANGED << stall_cycles, fb_info, os_fragment, vtx, vtx_idx, screen_x, screen_y, min_x, min_y, max_x,
                    max_y, w0, w1, w2, area, area_recip, inv_w_sum, inv_w_sum_recip,
                    depth_num, color_num, texcoord_num, rast_inv_busy, rast_inv_arg,
                    frags, ntris >>
    /\ UNCHANGED << clipVars, frontVars >>

\* state SCAN
Scan ==
    /\ rast_state = "SCAN"
    /\ LET e0 == edge_fn(screen_x[1], screen_y[1], screen_x[2], screen_y[2], px, py)
           e1 == edge_fn(screen_x[2], screen_y[2], screen_x[0], screen_y[0], px, py)
           e2 == edge_fn(screen_x[0], screen_y[0], screen_x[1], screen_y[1], px, py)
       IN  /\ w0' = Narrow2(e0)
           /\ w1' = Narrow2(e1)
           /\ w2' = Narrow2(e2)
           /\ rast_state' = IF Inside(e0, e1, e2) THEN "EMIT" ELSE "ADVANCE"
    /\ UNCHANGED << stall_cycles, fb_info, os_fragment, vtx, vtx_idx, screen_x, screen_y, min_x, min_y, max_x,
                    max_y, px, py, area, area_recip, inv_w_sum, inv_w_sum_recip,
                    depth_num, color_num, texcoord_num, rast_inv_busy, rast_inv_arg,
                    frags, ntris >>
    /\ UNCHANGED << clipVars, frontVars >>

\* state EMIT.  The numerators are registered at the clock edge; the reciprocal
\* request made during the cycle carries the value the inv_w_sum register holds
\* before that edge.
Emit(inv_ready) ==
    /\ rast_state = "EMIT"
    /\ inv_w_sum' = Narrow2(w0 * W(vtx[0]) + w1 * W(vtx[1]) + w2 * W(vtx[2]))
    /\ depth_num' = Narrow2(w0 * Z(vtx[0]) + w1 * Z(vtx[1]) + w2 * Z(vtx[2]))
    /\ color_num' = Narrow3(w0 * vtx[0].color * W(vtx[0])
                            + w1 * vtx[1].color * W(vtx[1])
                            + w2 * vtx[2].color * W(vtx[2]))
    /\ texcoord_num' = Narrow3(w0 * vtx[0].texcoords * W(vtx[0])
                               + w1 * vtx[1].texcoords * W(vtx[1])
                               + w2 * vtx[2].texcoords * W(vtx[2]))
    /\ IF inv_ready /\ ~rast_inv_busy
         THEN /\ rast_inv_busy' = TRUE
              /\ rast_inv_arg' = inv_w_sum
              /\ rast_state' = "INTERP_WAIT"
         ELSE /\ rast_state' = rast_state
              /\ UNCHANGED << rast_inv_busy, rast_inv_arg >>
    /\ UNCHANGED << stall_cycles, fb_info, os_fragment, vtx, vtx_idx, screen_x, screen_y, min_x, min_y, max_x,
                    max_y, px, py, w0, w1, w2, area, area_recip, inv_w_sum_recip,
                    frags, ntris >>
    /\ UNCHANGED << clipVars, frontVars >>

\* state INTERP_WAIT: the reciprocal unit answers
InterpWait ==
    /\ rast_state = "INTERP_WAIT"
    /\ rast_inv_busy
    /\ \E r \in RecipResults(rast_inv_arg) : inv_w_sum_recip' = r
    /\ rast_inv_busy' = FALSE
    /\ rast_state' = "OUTPUT"
    /\ UNCHANGED << stall_cycles, fb_info, os_fragment, vtx, vtx_idx, screen_x, screen_y, min_x, min_y, max_x,
                    max_y, px, py, w0, w1, w2, area, area_recip, inv_w_sum,
                    depth_num, color_num, texcoord_num, rast_inv_arg, frags, ntris >>
    /\ UNCHANGED << clipVars, frontVars >>

\* cycles a fragment is kept waiting at most
MaxStall == 2

\* state OUTPUT: os_fragment.valid and the payload driven from the registers
os_fragment_valid == rast_state = "OUTPUT"

os_fragment_payload ==
    [coord_pos |-> << Truncate(px), Truncate(py) >>,
     depth |-> Narrow2(depth_num * area_recip),
     color |-> Narrow2(color_num * inv_w_sum_recip),
     texcoords |-> Narrow2(texcoord_num * inv_w_sum_recip)]

\* A stalled cycle that gives the fragment up and moves on.
OutputStallDropping ==
    /\ rast_state = "OUTPUT"
    /\ stall_cycles < MaxStall
    /\ stall_cycles' = 0
    /\ rast_state' = "ADVANCE"
    /\ UNCHANGED << fb_info, os_fragment, vtx, vtx_idx, screen_x, screen_y, min_x,
                    min_y, max_x, max_y, px, py, w0, w1, w2, area, area_recip,
                    inv_w_sum, inv_w_sum_recip, depth_num, color_num, texcoord_num,
                    rast_inv_busy, rast_inv_arg, frags, ntris >>
    /\ UNCHANGED << clipVars, frontVars >>

\* state OUTPUT, os_fragment.ready = 0: nothing is registered, the state stays
OutputStall ==
    /\ rast_state = "OUTPUT"
    /\ stall_cycles < MaxStall
    /\ stall_cycles' = stall_cycles + 1
    /\ UNCHANGED << rast_state, fb_info, os_fragment, vtx, vtx_idx, screen_x, screen_y,
                    min_x, min_y, max_x, max_y, px, py, w0, w1, w2, area, area_recip,
                    inv_w_sum, inv_w_sum_recip, depth_num, color_num, texcoord_num,
                    rast_inv_busy, rast_inv_arg, frags, ntris >>
    /\ UNCHANGED << clipVars, frontVars >>

\* state OUTPUT: the consumer takes the fragment (os_fragment.ready)
Output ==
    /\ rast_state = "OUTPUT"
    /\ os_fragment' = os_fragment_payload
    /\ stall_cycles' = 0
    /\ frags' = IF Len(frags) < MaxFrags
                   THEN Append(frags, [coord_pos |-> << Truncate(px), Truncate(py) >>,
                                       at |-> << px, py >>])
                   ELSE frags
    /\ rast_state' = "ADVANCE"
    /\ UNCHANGED << fb_info, vtx, vtx_idx, screen_x, screen_y, min_x, min_y, max_x,
                    max_y, px, py, w0, w1, w2, area, area_recip, inv_w_sum,
                    inv_w_sum_recip, depth_num, color_num, texcoord_num,
                    rast_inv_busy, rast_inv_arg, ntris >>
    /\ UNCHANGED << clipVars, frontVars >>

\* state ADVANCE
Advance ==
    /\ rast_state = "ADVANCE"
    /\ IF px >= max_x
         THEN /\ px' = min_x
              /\ IF py >= max_y
                   THEN /\ rast_state' = "COLLECT"
                        /\ py' = py
                   ELSE /\ py' = Wrap(py + ONE)
                        /\ rast_state' = "SCAN"
         ELSE /\ px' = Wrap(px + ONE)
              /\ py' = py
              /\ rast_state' = "SCAN"
    /\ UNCHANGED << stall_cycles, fb_info, os_fragment, vtx, vtx_idx, screen_x, screen_y, min_x, min_y, max_x,
                    max_y, w0, w1, w2, area, area_recip, inv_w_sum, inv_w_sum_recip,
                    depth_num, color_num, texcoord_num, rast_inv_busy, rast_inv_arg,
                    frags, ntris >>
    /\ UNCHANGED << clipVars, frontVars >>

RastNext ==
    \/ \E v \in RastVertexPool : RastCollect(v)
    \/ Setup
    \/ \E inv_ready \in BOOLEAN : BoundingBox(inv_ready)
    \/ AreaRecipWait
    \/ ScanInit
    \/ Scan
    \/ \E inv_ready \in BOOLEAN : Emit(inv_ready)
    \/ InterpWait
    \/ OutputStall
    \/ Output
    \/ Advance

EdgeNext ==
    \/ \E v \in EdgePool : RastCollect(v)
    \/ Setup
    \/ \E inv_ready \in BOOLEAN : BoundingBox(inv_ready)
    \/ AreaRecipWait
    \/ ScanInit
    \/ Scan
    \/ \E inv_ready \in BOOLEAN : Emit(inv_ready)
    \/ InterpWait
    \/ OutputStall
    \/ Output
    \/ Advance

\* Either unit at work on its own input; the two units share no signal, so
\* the one that starts first keeps the other idle.
UnitsNext ==
    \/ \E v \in HistPool :
          ntris = 0 /\ fb_info = FullFramebuffer /\ CollectVertex(v, MaxHistPrims)
    \/ \E t \in PrimitiveTypes : SetPrimType(t)
    \/ Check
    \/ Clip
    \/ ClipPlane
    \/ ClipEdge
    \/ ClipInvReq
    \/ ClipInvWait
    \/ ClipApply
    \/ ClipEmit
    \/ ClipOutput
    \/ WOutTakeI
    \/ WOutTakeN
    \/ \E v \in RastVertexPool :
          nprims = 0 /\ prim_type = TRIANGLES /\ RastCollect(v)
    \/ Setup
    \/ \E inv_ready \in BOOLEAN : BoundingBox(inv_ready)
    \/ AreaRecipWait
    \/ ScanInit
    \/ Scan
    \/ \E inv_ready \in BOOLEAN : Emit(inv_ready)
    \/ InterpWait
    \/ OutputStall
    \/ Output
    \/ Advance

\* ------------------------------------------------------- PrimitiveAssembly
\* src/gpu/primitive_assembly/cores.py.  One action is one clock edge.

\* most output vertices recorded in one behaviour
MaxPaOut == 3

\* a vertex on is_vertex, with the fields the unit reads
PaVertex(x, y, c, cb) ==
    [position_proj |-> << x, y, 0, ONE >>, texcoords |-> 0, color |-> c, color_back |-> cb]

\* the vertices of the triangle (0,0), (1,0), (0,1), each with its own colours
PaPool == << PaVertex(0, 0, 1, 5), PaVertex(ONE, 0, 2, 6), PaVertex(0, ONE, 3, 7) >>

\* what the producer sends: a point, a line, the triangle in either winding
PaInputs(t) ==
    IF t = POINTS THEN { << PaPool[1] >>, << PaPool[2] >> }
    ELSE IF t = LINES THEN { << PaPool[1], PaPool[2] >>, << PaPool[3], PaPool[1] >> }
    ELSE { << PaPool[1], PaPool[2], PaPool[3] >>, << PaPool[1], PaPool[3], PaPool[2] >> }

\* the payload wires of an idle stream carry no defined value
PaIdlePayloads == { PaPool[1], PaPool[2], PaPool[3], PaVertex(0, 0, 0, 0) }

\* os_primitive.payload after reset
PaResetPayload ==
    [position_proj |-> << 0, 0, 0, 0 >>, texcoords |-> 0, color |-> 0, front_facing |-> 0]

\* is_vertex.ready is driven high only in the branch taken when nothing is presented
pa_is_vertex_ready == is_vertex.valid = 0

\* the unit's ready output
pa_ready == os_primitive.valid = 0

\* the registers written in the branch: the input payload, front_facing = 1
PaLatched(p) ==
    [position_proj |-> p.position_proj, texcoords |-> p.texcoords, color |-> p.color,
     front_facing |-> 1]

\* The producer keeps a vertex on offer until it is transferred; otherwise it
\* idles or offers the next vertex it has to send.
PaProducerNext(sent) ==
    IF is_vertex.valid = 1 /\ ~pa_is_vertex_ready
    THEN { is_vertex }
    ELSE { [valid |-> 0, p |-> v] : v \in PaIdlePayloads }
         \cup (IF sent < Len(pa_input)
               THEN { [valid |-> 1, p |-> pa_input[sent + 1]] }
               ELSE {})

\* one clock edge of the primitive assembly
PaClock(os_ready, nxt) ==
    LET transfer_in  == is_vertex.valid = 1 /\ pa_is_vertex_ready
        transfer_out == os_primitive.valid = 1 /\ os_ready
    IN  /\ nxt \in PaProducerNext(Len(pa_accepted) + (IF transfer_in THEN 1 ELSE 0))
        /\ os_primitive' =
              IF is_vertex.valid = 0
              THEN [valid |-> 1, p |-> PaLatched(is_vertex.p)]
              ELSE IF os_ready
                   THEN [os_primitive EXCEPT !.valid = 0]
                   ELSE os_primitive
        /\ pa_accepted' = IF transfer_in THEN Append(pa_accepted, is_vertex.p) ELSE pa_accepted
        /\ pa_out' = IF transfer_out /\ Len(pa_out) < MaxPaOut
                     THEN Append(pa_out, os_primitive.p)
                     ELSE pa_out
        /\ is_vertex' = nxt
        /\ UNCHANGED << pa_prim_type, prim_cull, prim_winding, pa_input >>
        /\ UNCHANGED notPa

\* registers, wires and histories of the primitive assembly after reset
PaRegsReset ==
    /\ is_vertex = [valid |-> 0, p |-> PaVertex(0, 0, 0, 0)]
    /\ os_primitive = [valid |-> 0, p |-> PaResetPayload]
    /\ pa_accepted = << >>
    /\ pa_out = << >>

\* the primitive assembly with nothing to do
PaIdle ==
    /\ PaRegsReset
    /\ pa_prim_type = POINTS
    /\ prim_cull = "NONE"
    /\ prim_winding = "CCW"
    /\ pa_input = << >>

\* every value the input wires can take
PaWires == { [valid |-> b, p |-> v] : b \in {0, 1}, v \in PaIdlePayloads }

PaNext ==
    \E os_ready \in BOOLEAN : \E nxt \in PaWires : PaClock(os_ready, nxt)

\* ------------------------------------------------------- IndexGenerator
\* src/gpu/input_assembly/cores.py.  One action is one clock edge in one FSM state.

\* IndexKind
NOT_INDEXED == 0
U8 == 1
U16 == 2
U32 == 3
IndexKinds == {NOT_INDEXED, U8, U16, U32}

\* largest index count configured
MaxIndexCount == 3
\* most starts in one behaviour
MaxIgRuns == 2

\* index buffer: the byte at address a holds a + 1, i.e. the little-endian words
\* 0x04030201, 0x08070605, 0x0C0B0A09, 0x100F0E0D
IgMemWords == 4
IgByte(a) == a + 1
IgMemory == [w \in 0..(IgMemWords - 1) |->
                IgByte(4 * w) + 256 * IgByte(4 * w + 1) + 65536 * IgByte(4 * w + 2)
                    + 16777216 * IgByte(4 * w + 3)]

\* start addresses of the index buffer: every offset inside a word
IgAddresses == 0..3

\* bits lo .. hi-1 of v
Bits(v, lo, hi) == (v \div Pow2(lo)) % Pow2(hi - lo)

index_increment(kind) ==
    IF kind = U8 THEN 1 ELSE IF kind = U16 THEN 2 ELSE IF kind = U32 THEN 4 ELSE 0

index_shift(kind) ==
    IF kind = U8 THEN 0 ELSE IF kind = U16 THEN 1 ELSE IF kind = U32 THEN 2 ELSE 0

\* offset of the current index inside its word
ig_offset == Bits(ig_address, 0, 2)

\* the table keyed by kind and offset, read from the register data_read
extended_data_of(kind, offset, word) ==
    IF kind = U8 THEN Bits(word, 8 * offset, 8 * offset + 8)
    ELSE IF kind = U16 /\ offset = 0 THEN Bits(word, 0, 16)
    ELSE IF kind = U16 /\ offset = 2 THEN Bits(word, 16, 32)
    ELSE IF kind = U32 /\ offset = 0 THEN word
    ELSE 0

extended_data == extended_data_of(ig_config.kind, ig_offset, data_read)

\* byte enables of a read: max_mask << offset, four bits
ig_sel ==
    LET bytes_remaining == (ig_config.count - cur_idx) * Pow2(index_shift(ig_config.kind))
        max_mask == IF bytes_remaining < 4 THEN Pow2(bytes_remaining) - 1 ELSE 15
    IN  (max_mask * Pow2(ig_offset)) % 16

\* the unit's ready output
ig_ready == ig_state = "IDLE"

\* the output register can be written: it is empty or its index is being taken
IgOutputFreeAlways(ready) == TRUE

IgOutputFree(ready) == index_stream.valid = 0 \/ ready

\* index_stream.valid is cleared when the consumer is ready; the consumer takes
\* the index on offer
IgTake(ready) ==
    /\ ig_out' = IF index_stream.valid = 1 /\ ready
                 THEN Append(ig_out, index_stream.payload)
                 ELSE ig_out
    /\ ig_stalled' = IF index_stream.valid = 1 /\ ~ready THEN 1 ELSE ig_stalled

IgCleared(ready) == IF ready THEN [index_stream EXCEPT !.valid = 0] ELSE index_stream

\* IDLE: a write of 1 to the start register
IgStart ==
    /\ ig_state = "IDLE"
    /\ ig_runs < MaxIgRuns
    /\ cur_idx' = 0
    /\ ig_address' = ig_config.address
    /\ ig_state' = IF ig_config.count = 0 THEN "IDLE"
                   ELSE IF ig_config.kind = NOT_INDEXED THEN "STREAM_NON_INDEXED"
                   ELSE "MEM_READ_INIT"
    /\ ig_runs' = ig_runs + 1
    /\ ig_out' = << >>
    /\ ig_stalled' = 0
    /\ UNCHANGED << ig_config, data_read, index_stream, ig_master >>
    /\ UNCHANGED notIg

IgStreamNonIndexed(ready) ==
    /\ ig_state = "STREAM_NON_INDEXED"
    /\ IgTake(ready)
    /\ IF IgOutputFree(ready)
       THEN /\ index_stream' = [valid |-> 1, payload |-> cur_idx]
            /\ cur_idx' = cur_idx + 1
            /\ ig_state' = IF cur_idx + 1 = ig_config.count
                           THEN "WAIT_FLUSH" ELSE "STREAM_NON_INDEXED"
       ELSE /\ index_stream' = IgCleared(ready)
            /\ UNCHANGED << cur_idx, ig_state >>
    /\ UNCHANGED << ig_config, ig_address, data_read, ig_master, ig_runs >>
    /\ UNCHANGED notIg

IgMemReadInit(ready) ==
    /\ ig_state = "MEM_READ_INIT"
    /\ IgTake(ready)
    /\ index_stream' = IgCleared(ready)
    /\ ig_master' = [cyc |-> 1, stb |-> 1, adr |-> ig_address, sel |-> ig_sel]
    /\ ig_state' = "MEM_READ_WAIT"
    /\ UNCHANGED << ig_config, ig_address, cur_idx, data_read, ig_runs >>
    /\ UNCHANGED notIg

\* MEM_READ_WAIT on the clock edge at which the bus acknowledges: data_read is
\* loaded from extended_data, which is itself a slice of data_read
IgMemReadWait(ready) ==
    /\ ig_state = "MEM_READ_WAIT"
    /\ IgTake(ready)
    /\ index_stream' = IgCleared(ready)
    /\ ig_master' = [ig_master EXCEPT !.cyc = 0, !.stb = 0]
    /\ data_read' = extended_data
    /\ ig_state' = "INDEX_SEND"
    /\ UNCHANGED << ig_config, ig_address, cur_idx, ig_runs >>
    /\ UNCHANGED notIg

IgIndexSend(ready) ==
    /\ ig_state = "INDEX_SEND"
    /\ IgTake(ready)
    /\ IF IgOutputFree(ready)
       THEN LET next_addr == ig_address + index_increment(ig_config.kind)
            IN  /\ index_stream' = [valid |-> 1, payload |-> extended_data]
                /\ ig_address' = next_addr
                /\ cur_idx' = cur_idx + 1
                /\ ig_state' = IF cur_idx + 1 = ig_config.count THEN "WAIT_FLUSH"
                               ELSE IF Bits(next_addr, 0, 2) # 0 THEN "INDEX_SEND"
                               ELSE "MEM_READ_INIT"
       ELSE /\ index_stream' = IgCleared(ready)
            /\ UNCHANGED << ig_address, cur_idx, ig_state >>
    /\ UNCHANGED << ig_config, data_read, ig_master, ig_runs >>
    /\ UNCHANGED notIg

IgWaitFlush(ready) ==
    /\ ig_state = "WAIT_FLUSH"
    /\ IgTake(ready)
    /\ index_stream' = IgCleared(ready)
    /\ ig_state' = IF IgOutputFree(ready) THEN "IDLE" ELSE "WAIT_FLUSH"
    /\ UNCHANGED << ig_config, ig_address, cur_idx, data_read, ig_master, ig_runs >>
    /\ UNCHANGED notIg

\* registers and histories of the index generator after reset
IgRegsReset ==
    /\ ig_state = "IDLE"
    /\ ig_address = 0
    /\ cur_idx = 0
    /\ data_read = 0
    /\ index_stream = [valid |-> 0, payload |-> 0]
    /\ ig_master = [cyc |-> 0, stb |-> 0, adr |-> 0, sel |-> 0]
    /\ ig_out = << >>
    /\ ig_runs = 0
    /\ ig_stalled = 0

\* the index generator with nothing to do
IgIdle ==
    /\ IgRegsReset
    /\ ig_config = [address |-> 0, count |-> 0, kind |-> NOT_INDEXED]

IgNext ==
    \/ IgStart
    \/ \E ready \in BOOLEAN : IgStreamNonIndexed(ready)
    \/ \E ready \in BOOLEAN : IgMemReadInit(ready)
    \/ \E ready \in BOOLEAN : IgMemReadWait(ready)
    \/ \E ready \in BOOLEAN : IgIndexSend(ready)
    \/ \E ready \in BOOLEAN : IgWaitFlush(ready)

\* ------------------------------------------------------- InputAssembly
\* src/gpu/input_assembly/cores.py.  One action is one clock edge in one FSM state;
\* the states FETCH_ATTR_<n>_... of the source are the state name with ia_attr_no = n
\* and, for the memory states, ia_comp = i.

\* most indices accepted in one behaviour
MaxIaVertices == 2
\* largest index presented
MaxIaIndex == 1
\* fractional bits FixedPoint_mem has more than FixedPoint
MemExtraBits == 1

\* attr_info: position, normal, texcoords[0], texcoords[1], color
IaAttributes == 1..5
\* number of components of each attribute of VertexLayout
IaComponents(a) == << 4, 3, 2, 2, 4 >>[a]

\* strides of the vertex buffer, in bytes: four and five words
IaStrides == {16, 20}

\* vertex buffer: the word at byte address a holds the FixedPoint_mem value whose
\* FixedPoint image is the word number plus one
IaWord(a) == Pow2(MemExtraBits) * ((a \div 4) + 1)

\* change_radix: a FixedPoint_mem word as a FixedPoint value
ChangeRadix(w) == Wrap(w \div Pow2(MemExtraBits))

\* the constant (0, 0, 0, 1) the driver configures
IaConstant == << 0, 0, 0, ONE >>

\* `stride = Signal.like(desc.per_vertex.stride)`: a new register of that shape
\* that is never assigned; it holds its reset value
IaStrideSignal(a) == 0

\* the output register can be written
output_next_free(ready) == vertex_stream.valid = 0 \/ ready

\* vertex_stream.valid is cleared when the consumer is ready; the consumer takes
\* the vertex on offer
IaTake(ready) ==
    ia_out' = IF vertex_stream.valid = 1 /\ ready
              THEN Append(ia_out, vertex_stream.payload)
              ELSE ia_out

IaCleared(ready) == IF ready THEN [vertex_stream EXCEPT !.valid = 0] ELSE vertex_stream

\* IDLE with an index presented: index_stream.ready is high, the index is latched
IaAcceptIndex(ready, index) ==
    /\ ia_state = "IDLE"
    /\ Len(ia_in) < MaxIaVertices
    /\ IaTake(ready)
    /\ vertex_stream' = IaCleared(ready)
    /\ ia_idx' = index
    /\ ia_in' = Append(ia_in, index)
    /\ ia_state' = "START"
    /\ ia_attr_no' = 1
    /\ ia_comp' = 0
    /\ UNCHANGED << ia_attrs, ia_vtx, ia_addr, ia_bus >>
    /\ UNCHANGED notIa

\* FETCH_ATTR_<n>_START
IaStartAttr(ready) ==
    /\ ia_state = "START"
    /\ IaTake(ready)
    /\ vertex_stream' = IaCleared(ready)
    /\ LET a    == ia_attr_no
           desc == ia_attrs[a]
       IN  IF desc.input_mode = "CONSTANT"
           THEN /\ ia_vtx' = [ia_vtx EXCEPT ![a] =
                                 [i \in 1..IaComponents(a) |-> desc.constant_value[i]]]
                /\ ia_state' = "DONE"
                /\ UNCHANGED ia_addr
           ELSE /\ ia_addr' = [ia_addr EXCEPT ![a] = desc.address + ia_idx * IaStrideSignal(a)]
                /\ ia_state' = "MEM_READ_COMPONENT"
                /\ UNCHANGED ia_vtx
    /\ UNCHANGED << ia_attr_no, ia_comp, ia_attrs, ia_idx, ia_bus, ia_in >>
    /\ UNCHANGED notIa

\* FETCH_ATTR_<n>_MEM_READ_COMPONENT_<i>
IaMemReadComponent(ready) ==
    /\ ia_state = "MEM_READ_COMPONENT"
    /\ IaTake(ready)
    /\ vertex_stream' = IaCleared(ready)
    /\ ia_bus' = [cyc |-> 1, stb |-> 1, adr |-> ia_addr[ia_attr_no]]
    /\ ia_state' = "MEM_WAIT"
    /\ UNCHANGED << ia_attr_no, ia_comp, ia_attrs, ia_idx, ia_vtx, ia_addr, ia_in >>
    /\ UNCHANGED notIa

\* FETCH_ATTR_<n>_MEM_WAIT_<i> on the clock edge at which the bus acknowledges
IaMemWait(ready) ==
    /\ ia_state = "MEM_WAIT"
    /\ IaTake(ready)
    /\ vertex_stream' = IaCleared(ready)
    /\ LET a     == ia_attr_no
           dat_r == IaWord(ia_bus.adr)
       IN  /\ ia_vtx' = [ia_vtx EXCEPT ![a][ia_comp + 1] = ChangeRadix(dat_r)]
           /\ ia_bus' = [ia_bus EXCEPT !.cyc = 0, !.stb = 0]
           /\ IF ia_comp + 1 < IaComponents(a)
              THEN /\ ia_addr' = [ia_addr EXCEPT ![a] = ia_addr[a] + 4]
                   /\ ia_comp' = ia_comp + 1
                   /\ ia_state' = "MEM_READ_COMPONENT"
              ELSE /\ ia_state' = "DONE"
                   /\ UNCHANGED << ia_addr, ia_comp >>
    /\ UNCHANGED << ia_attr_no, ia_attrs, ia_idx, ia_in >>
    /\ UNCHANGED notIa

\* FETCH_ATTR_<n>_DONE of an attribute that is not the last
IaDoneAttr(ready) ==
    /\ ia_state = "DONE"
    /\ ia_attr_no < 5
    /\ IaTake(ready)
    /\ vertex_stream' = IaCleared(ready)
    /\ ia_attr_no' = ia_attr_no + 1
    /\ ia_comp' = 0
    /\ ia_state' = "START"
    /\ UNCHANGED << ia_attrs, ia_idx, ia_vtx, ia_addr, ia_bus, ia_in >>
    /\ UNCHANGED notIa

\* FETCH_ATTR_<n>_DONE of the last attribute: the vertex is output
IaDoneVertex(ready) ==
    /\ ia_state = "DONE"
    /\ ia_attr_no = 5
    /\ IaTake(ready)
    /\ IF output_next_free(ready)
       THEN /\ vertex_stream' = [valid |-> 1, payload |-> ia_vtx]
            /\ ia_state' = "IDLE"
       ELSE /\ vertex_stream' = IaCleared(ready)
            /\ UNCHANGED ia_state
    /\ UNCHANGED << ia_attr_no, ia_comp, ia_attrs, ia_idx, ia_vtx, ia_addr, ia_bus, ia_in >>
    /\ UNCHANGED notIa

\* IDLE with no index presented while the consumer takes the vertex on offer
IaDrain ==
    /\ ia_state = "IDLE"
    /\ vertex_stream.valid = 1
    /\ IaTake(TRUE)
    /\ vertex_stream' = IaCleared(TRUE)
    /\ UNCHANGED << ia_state, ia_attr_no, ia_comp, ia_attrs, ia_idx, ia_vtx, ia_addr,
                    ia_bus, ia_in >>
    /\ UNCHANGED notIa

\* the all-zero vertex
IaZeroVertex == [a \in IaAttributes |-> [i \in 1..IaComponents(a) |-> 0]]

\* registers and histories of the input assembly after reset
IaRegsReset ==
    /\ ia_state = "IDLE"
    /\ ia_attr_no = 1
    /\ ia_comp = 0
    /\ ia_idx = 0
    /\ ia_vtx = IaZeroVertex
    /\ ia_addr = [a \in IaAttributes |-> 0]
    /\ vertex_stream = [valid |-> 0, payload |-> IaZeroVertex]
    /\ ia_bus = [cyc |-> 0, stb |-> 0, adr |-> 0]
    /\ ia_in = << >>
    /\ ia_out = << >>

\* an attribute description
IaDescription(mode, s) ==
    [input_mode |-> mode, address |-> 0, stride |-> s, constant_value |-> IaConstant]

\* the input assembly with nothing to do: every attribute constant
IaIdle ==
    /\ IaRegsReset
    /\ ia_attrs = [a \in IaAttributes |-> IaDescription("CONSTANT", 0)]

IaNext ==
    \/ \E ready \in BOOLEAN : \E index \in 0..MaxIaIndex : IaAcceptIndex(ready, index)
    \/ \E ready \in BOOLEAN : IaStartAttr(ready)
    \/ \E ready \in BOOLEAN : IaMemReadComponent(ready)
    \/ \E ready \in BOOLEAN : IaMemWait(ready)
    \/ \E ready \in BOOLEAN : IaDoneAttr(ready)
    \/ \E ready \in BOOLEAN : IaDoneVertex(ready)
    \/ IaDrain

\* ------------------------------------------------------- VertexTransform
\* src/gpu/vertex_transform/cores.py.  One action is one clock edge in one FSM state;
\* the states <NAME>_INIT, <NAME>_<i>_<j> and <NAME>_STORE_<i> of the source are the
\* state name with vt_attr, vt_i and vt_j.

\* most vertices accepted in one behaviour
MaxVtVertices == 1

\* 1.0 in FixedPoint_mem
MemONE == Pow2(MemExtraBits) * ONE

\* attr_info: POSITION_MV, POSITION_P, NORMAL, TEXTURE_0, TEXTURE_1
VtAttributes == 1..5

\* matrices as the inputs carry them: 16 or 9 FixedPoint_mem elements
Identity4 == [n \in 1..16 |-> IF (n - 1) % 5 = 0 THEN MemONE ELSE 0]
\* the identity with element 12 set to 1.0
Translate4 == [n \in 1..16 |-> IF (n - 1) % 5 = 0 \/ n = 13 THEN MemONE ELSE 0]
Identity3 == [n \in 1..9 |-> IF (n - 1) % 4 = 0 THEN MemONE ELSE 0]
\* the identity with element 6 set to 1.0
Shear3 == [n \in 1..9 |-> IF (n - 1) % 4 = 0 \/ n = 7 THEN MemONE ELSE 0]

VtMatrices4 == { Identity4, Translate4 }
VtMatrices3 == { Identity3, Shear3 }

\* a vertex on is_vertex: position, normal, two texcoords, colour
VtVertex(x, y, z) ==
    [position |-> << x, y, z, ONE >>, normal |-> << 0, y, ONE >>,
     texcoords |-> << << 1, 2, 3, ONE >>, << x, 2, y, ONE >> >>,
     color |-> << 1, 2, 3, ONE >>]

\* the vertex (1, -2, 3, 1) and the vertex (2, 1, 0, 1)
VtPool == { VtVertex(ONE, 0 - 2 * ONE, 3 * ONE), VtVertex(2 * ONE, ONE, 0) }

\* ShadingVertexLayout after reset
VtZeroOutput ==
    [position_view |-> << 0, 0, 0, 0 >>, position_proj |-> << 0, 0, 0, 0 >>,
     normal_view |-> << 0, 0, 0 >>,
     texcoords |-> << << 0, 0, 0, 0 >>, << 0, 0, 0, 0 >> >>,
     color |-> << 0, 0, 0, 0 >>]

\* attr["dim"]
VtDim(k) == IF k = 3 THEN 3 ELSE 4

\* attr["enabled"]
VtEnabled(k) ==
    IF k <= 2 THEN 1 ELSE IF k = 3 THEN vt_enabled.normal ELSE vt_enabled.texture[k - 3]

\* attr["matrix"]
VtMatrix(k) ==
    IF k = 1 THEN position_mv
    ELSE IF k = 2 THEN position_p
    ELSE IF k = 3 THEN normal_mv_inv_t
    ELSE texture_transforms[k - 3]

\* attr["vector"]
VtVector(k) ==
    IF k = 1 THEN i_data.position
    ELSE IF k = 2 THEN o_data.position_view
    ELSE IF k = 3 THEN i_data.normal
    ELSE i_data.texcoords[k - 3]

\* attr["result"]
VtResult(o, k) ==
    IF k = 1 THEN o.position_view
    ELSE IF k = 2 THEN o.position_proj
    ELSE IF k = 3 THEN o.normal_view
    ELSE o.texcoords[k - 3]

\* o_data with attr["result"] replaced
VtWithResult(o, k, vec) ==
    IF k = 1 THEN [o EXCEPT !.position_view = vec]
    ELSE IF k = 2 THEN [o EXCEPT !.position_proj = vec]
    ELSE IF k = 3 THEN [o EXCEPT !.normal_view = vec]
    ELSE [o EXCEPT !.texcoords[k - 3] = vec]

\* the vector of a skipped transformation: all components zero
VtSkippedZero(len) == [j \in 1..len |-> 0]

\* the vector of a skipped transformation: 0, 0, 0, 1
VtSkipped(len) == [j \in 1..len |-> IF j - 1 < 3 THEN 0 ELSE ONE]

\* mul_result for the FSM state: vector[j] * matrix[i * dim + j]
mul_result ==
    LET mul_a == VtVector(vt_attr)[vt_j + 1]
        mul_b == ChangeRadix(VtMatrix(vt_attr)[vt_i * VtDim(vt_attr) + vt_j + 1])
    IN  Wrap(MulReshape(mul_a, mul_b))

\* os_vertex.valid is cleared when the consumer is ready; the consumer takes the
\* vertex on offer
VtTake(ready) ==
    vt_out' = IF os_vertex.valid = 1 /\ ready
              THEN Append(vt_out, os_vertex.payload)
              ELSE vt_out

VtCleared(ready) == IF ready THEN [os_vertex EXCEPT !.valid = 0] ELSE os_vertex

\* IDLE with a vertex presented
VtAccept(ready, v) ==
    /\ vt_state = "IDLE"
    /\ Len(vt_in) < MaxVtVertices
    /\ VtTake(ready)
    /\ os_vertex' = VtCleared(ready)
    /\ i_data' = v
    /\ vt_in' = Append(vt_in, v)
    /\ vt_state' = "INIT"
    /\ vt_attr' = 1
    /\ UNCHANGED << vt_i, vt_j, vt_enabled, position_mv, position_p, normal_mv_inv_t,
                    texture_transforms, o_data, cum_result >>
    /\ UNCHANGED notVt

\* <NAME>_INIT
VtAttrInit(ready) ==
    /\ vt_state = "INIT"
    /\ VtTake(ready)
    /\ os_vertex' = VtCleared(ready)
    /\ cum_result' = 0
    /\ IF VtEnabled(vt_attr) = 1
       THEN /\ vt_state' = "MAC"
            /\ vt_i' = 0
            /\ vt_j' = 0
            /\ UNCHANGED << vt_attr, o_data >>
       ELSE /\ o_data' = VtWithResult(o_data, vt_attr, VtSkipped(Len(VtResult(o_data, vt_attr))))
            /\ IF vt_attr < 5
               THEN vt_state' = "INIT" /\ vt_attr' = vt_attr + 1
               ELSE vt_state' = "SEND" /\ UNCHANGED vt_attr
            /\ UNCHANGED << vt_i, vt_j >>
    /\ UNCHANGED << vt_enabled, position_mv, position_p, normal_mv_inv_t,
                    texture_transforms, i_data, vt_in >>
    /\ UNCHANGED notVt

\* <NAME>_<i>_<j>
VtMac(ready) ==
    /\ vt_state = "MAC"
    /\ VtTake(ready)
    /\ os_vertex' = VtCleared(ready)
    /\ cum_result' = Wrap(cum_result + mul_result)
    /\ IF vt_j < VtDim(vt_attr) - 1
       THEN vt_j' = vt_j + 1 /\ UNCHANGED vt_state
       ELSE vt_state' = "STORE" /\ UNCHANGED vt_j
    /\ UNCHANGED << vt_attr, vt_i, vt_enabled, position_mv, position_p, normal_mv_inv_t,
                    texture_transforms, i_data, o_data, vt_in >>
    /\ UNCHANGED notVt

\* <NAME>_STORE_<i>
VtStore(ready) ==
    /\ vt_state = "STORE"
    /\ VtTake(ready)
    /\ os_vertex' = VtCleared(ready)
    /\ o_data' = VtWithResult(o_data, vt_attr,
                              [VtResult(o_data, vt_attr) EXCEPT ![vt_i + 1] = cum_result])
    /\ cum_result' = 0
    /\ IF vt_i = VtDim(vt_attr) - 1
       THEN /\ IF vt_attr < 5
               THEN vt_state' = "INIT" /\ vt_attr' = vt_attr + 1
               ELSE vt_state' = "SEND" /\ UNCHANGED vt_attr
            /\ UNCHANGED << vt_i, vt_j >>
       ELSE /\ vt_state' = "MAC"
            /\ vt_i' = vt_i + 1
            /\ vt_j' = 0
            /\ UNCHANGED vt_attr
    /\ UNCHANGED << vt_enabled, position_mv, position_p, normal_mv_inv_t,
                    texture_transforms, i_data, vt_in >>
    /\ UNCHANGED notVt

\* SEND
VtSend(ready) ==
    /\ vt_state = "SEND"
    /\ VtTake(ready)
    /\ IF os_vertex.valid = 0 \/ ready
       THEN /\ os_vertex' = [valid |-> 1, payload |-> o_data]
            /\ vt_state' = "IDLE"
       ELSE /\ os_vertex' = VtCleared(ready)
            /\ UNCHANGED vt_state
    /\ UNCHANGED << vt_attr, vt_i, vt_j, vt_enabled, position_mv, position_p,
                    normal_mv_inv_t, texture_transforms, i_data, o_data, cum_result, vt_in >>
    /\ UNCHANGED notVt

\* IDLE with no vertex presented while the consumer takes the vertex on offer
VtDrain ==
    /\ vt_state = "IDLE"
    /\ os_vertex.valid = 1
    /\ VtTake(TRUE)
    /\ os_vertex' = VtCleared(TRUE)
    /\ UNCHANGED << vt_state, vt_attr, vt_i, vt_j, vt_enabled, position_mv, position_p,
                    normal_mv_inv_t, texture_transforms, i_data, o_data, cum_result, vt_in >>
    /\ UNCHANGED notVt

\* registers and histories of the vertex transform after reset
VtRegsReset ==
    /\ vt_state = "IDLE"
    /\ vt_attr = 1
    /\ vt_i = 0
    /\ vt_j = 0
    /\ i_data = [position |-> << 0, 0, 0, 0 >>, normal |-> << 0, 0, 0 >>,
                 texcoords |-> << << 0, 0, 0, 0 >>, << 0, 0, 0, 0 >> >>,
                 color |-> << 0, 0, 0, 0 >>]
    /\ o_data = VtZeroOutput
    /\ cum_result = 0
    /\ os_vertex = [valid |-> 0, payload |-> VtZeroOutput]
    /\ vt_in = << >>
    /\ vt_out = << >>

\* the vertex transform with nothing to do
VtIdle ==
    /\ VtRegsReset
    /\ vt_enabled = [normal |-> 0, texture |-> << 0, 0 >>]
    /\ position_mv = Identity4
    /\ position_p = Identity4
    /\ normal_mv_inv_t = Identity3
    /\ texture_transforms = << Identity4, Identity4 >>

VtNext ==
    \/ \E ready \in BOOLEAN : \E v \in VtPool : VtAccept(ready, v)
    \/ \E ready \in BOOLEAN : VtAttrInit(ready)
    \/ \E ready \in BOOLEAN : VtMac(ready)
    \/ \E ready \in BOOLEAN : VtStore(ready)
    \/ \E ready \in BOOLEAN : VtSend(ready)
    \/ VtDrain

\* ------------------------------------------------------- InputTopologyProcessor
\* InputTopology
POINT_LIST == 0
LINE_LIST == 1
LINE_STRIP == 2
TRIANGLE_LIST == 3
TRIANGLE_STRIP == 4
TRIANGLE_FAN == 5
InputTopologies ==
    {POINT_LIST, LINE_LIST, LINE_STRIP, TRIANGLE_LIST, TRIANGLE_STRIP, TRIANGLE_FAN}

\* indices of one run of the producer
MaxItpIndices == 5

\* the value configured as primitive_restart_index; no vertex has this index
ItpRestartIndex == MaxItpIndices + 2

\* What the producer sends: the indices 0, 1, 2, ... of one run, or the same with
\* the restart index in place of one of them.
ItpInputs ==
    { [i \in 1 .. n |-> i - 1] : n \in 0 .. MaxItpIndices }
        \cup { [i \in 1 .. MaxItpIndices |-> IF i = k THEN ItpRestartIndex ELSE i - 1] :
                 k \in 1 .. MaxItpIndices }

\* ready_for_input: nothing left to send, or the last index is being sent in this cycle
ready_for_input(os_ready) == to_send_left = 0 \/ (os_ready /\ to_send_left = 1)

\* ready of the topology processor, with index_stream.valid low
itp_ready == to_send_left = 0 /\ index_stream_output.valid = 0

\* with m.If(index_stream_output.ready): the output register after the Switch(to_send_left)
ItpSent(os_ready) ==
    IF ~os_ready THEN index_stream_output
    ELSE IF to_send_left >= 1
      THEN [valid |-> 1, payload |-> to_send[to_send_left - 1]]
      ELSE [index_stream_output EXCEPT !.valid = 0]

\* to_send_left after the Switch(to_send_left)
ItpLeft(os_ready) == IF os_ready /\ to_send_left >= 1 THEN to_send_left - 1 ELSE to_send_left

\* the consumer takes the index on offer
ItpTake(os_ready) ==
    itp_out' = IF index_stream_output.valid = 1 /\ os_ready
               THEN Append(itp_out, index_stream_output.payload)
               ELSE itp_out

\* index_stream.valid & ready_for_input: the head of the producer's indices is accepted
ItpAccepts(os_ready) ==
    /\ itp_input # << >>
    /\ ready_for_input(os_ready)
    /\ itp_input' = Tail(itp_input)
    /\ itp_in' = Append(itp_in, Head(itp_input))
    /\ ItpTake(os_ready)
    /\ itp_config' = itp_config

ItpIsRestart ==
    /\ itp_config.primitive_restart_enable = 1
    /\ Head(itp_input) = itp_config.primitive_restart_index

\* a cycle in which no index is accepted
ItpWait(os_ready) ==
    /\ index_stream_output' = ItpSent(os_ready)
    /\ to_send_left' = ItpLeft(os_ready)
    /\ ItpTake(os_ready)
    /\ UNCHANGED << itp_config, v1, v2, vertex_count, to_send, itp_input, itp_in, itp_gen >>
    /\ UNCHANGED notItp

\* the primitive restart index is accepted
ItpRestart(os_ready) ==
    /\ ItpAccepts(os_ready)
    /\ ItpIsRestart
    /\ vertex_count' = 0
    /\ index_stream_output' = ItpSent(os_ready)
    /\ to_send_left' = ItpLeft(os_ready)
    /\ UNCHANGED << v1, v2, to_send, itp_gen >>
    /\ UNCHANGED notItp

\* POINT_LIST, LINE_LIST, TRIANGLE_LIST: the index goes to the output register
ItpList(os_ready) ==
    /\ ItpAccepts(os_ready)
    /\ ~ItpIsRestart
    /\ itp_config.input_topology \in {POINT_LIST, LINE_LIST, TRIANGLE_LIST}
    /\ index_stream_output' = [valid |-> 1, payload |-> Head(itp_input)]
    /\ to_send_left' = ItpLeft(os_ready)
    /\ itp_gen' = Append(itp_gen, Head(itp_input))
    /\ UNCHANGED << v1, v2, vertex_count, to_send >>
    /\ UNCHANGED notItp

\* LINE_STRIP
ItpLineStrip(os_ready) ==
    /\ ItpAccepts(os_ready)
    /\ ~ItpIsRestart
    /\ itp_config.input_topology = LINE_STRIP
    /\ index_stream_output' = ItpSent(os_ready)
    /\ v1' = Head(itp_input)
    /\ IF vertex_count = 0
         THEN /\ vertex_count' = 1
              /\ to_send_left' = ItpLeft(os_ready)
              /\ UNCHANGED << to_send, itp_gen >>
         ELSE /\ to_send' = [to_send EXCEPT ![1] = v1, ![0] = Head(itp_input)]
              /\ to_send_left' = 2
              /\ itp_gen' = itp_gen \o << v1, Head(itp_input) >>
              /\ vertex_count' = vertex_count
    /\ v2' = v2
    /\ UNCHANGED notItp

\* TRIANGLE_STRIP
ItpTriangleStrip(os_ready) ==
    /\ ItpAccepts(os_ready)
    /\ ~ItpIsRestart
    /\ itp_config.input_topology = TRIANGLE_STRIP
    /\ index_stream_output' = ItpSent(os_ready)
    /\ LET index == Head(itp_input)
       IN  IF vertex_count = 0
             THEN /\ v1' = index
                  /\ vertex_count' = 1
                  /\ to_send_left' = ItpLeft(os_ready)
                  /\ UNCHANGED << v2, to_send, itp_gen >>
           ELSE IF vertex_count = 1
             THEN /\ v2' = index
                  /\ vertex_count' = 2
                  /\ to_send_left' = ItpLeft(os_ready)
                  /\ UNCHANGED << v1, to_send, itp_gen >>
           ELSE IF vertex_count = 2
             THEN /\ to_send' = [to_send EXCEPT ![2] = v1, ![1] = v2, ![0] = index]
                  /\ to_send_left' = 3
                  /\ vertex_count' = 3
                  /\ v1' = v2
                  /\ v2' = index
                  /\ itp_gen' = itp_gen \o << v1, v2, index >>
           ELSE IF vertex_count = 3
             THEN /\ to_send' = [to_send EXCEPT ![2] = v2, ![1] = v1, ![0] = index]
                  /\ to_send_left' = 3
                  /\ v1' = v2
                  /\ v2' = index
                  /\ itp_gen' = itp_gen \o << v2, v1, index >>
                  /\ vertex_count' = vertex_count
           ELSE /\ to_send_left' = ItpLeft(os_ready)
                /\ UNCHANGED << v1, v2, vertex_count, to_send, itp_gen >>
    /\ UNCHANGED notItp

\* TRIANGLE_FAN
ItpTriangleFan(os_ready) ==
    /\ ItpAccepts(os_ready)
    /\ ~ItpIsRestart
    /\ itp_config.input_topology = TRIANGLE_FAN
    /\ index_stream_output' = ItpSent(os_ready)
    /\ LET index == Head(itp_input)
       IN  IF vertex_count = 0
             THEN /\ v1' = index
                  /\ vertex_count' = 1
                  /\ to_send_left' = ItpLeft(os_ready)
                  /\ UNCHANGED << v2, to_send, itp_gen >>
           ELSE IF vertex_count = 1
             THEN /\ v2' = index
                  /\ vertex_count' = 2
                  /\ to_send_left' = ItpLeft(os_ready)
                  /\ UNCHANGED << v1, to_send, itp_gen >>
           ELSE /\ to_send' = [to_send EXCEPT ![2] = v1, ![1] = v2, ![0] = index]
                /\ to_send_left' = 3
                /\ v2' = index
                /\ itp_gen' = itp_gen \o << v1, v2, index >>
                /\ UNCHANGED << v1, vertex_count >>
    /\ UNCHANGED notItp

\* reset values of the topology processor's registers
ItpRegsReset ==
    /\ v1 = 0 /\ v2 = 0
    /\ vertex_count = 0
    /\ to_send = [i \in 0 .. 2 |-> 0]
    /\ to_send_left = 0
    /\ index_stream_output = [valid |-> 0, payload |-> 0]
    /\ itp_in = << >>
    /\ itp_gen = << >>
    /\ itp_out = << >>

\* the topology processor with nothing to do
ItpIdle ==
    /\ ItpRegsReset
    /\ itp_config = [input_topology |-> TRIANGLE_LIST, primitive_restart_enable |-> 0,
                     primitive_restart_index |-> 0]
    /\ itp_input = << >>

ItpNext ==
    \/ \E os_ready \in BOOLEAN : ItpWait(os_ready)
    \/ \E os_ready \in BOOLEAN : ItpRestart(os_ready)
    \/ \E os_ready \in BOOLEAN : ItpList(os_ready)
    \/ \E os_ready \in BOOLEAN : ItpLineStrip(os_ready)
    \/ \E os_ready \in BOOLEAN : ItpTriangleStrip(os_ready)
    \/ \E os_ready \in BOOLEAN : ItpTriangleFan(os_ready)

\* the units in front of the clipper after reset
FrontRegsReset == PaIdle /\ IgIdle /\ IaIdle /\ VtIdle /\ ItpIdle

\* ------------------------------------------------------- specifications
\* the clipper at work, the rasterizer idle
Init ==
    /\ state = "COLLECT"
    /\ prim_type \in PrimitiveTypes
    /\ ClipRegsReset
    /\ rast_state = "COLLECT"
    /\ RastRegsReset
    /\ FrontRegsReset
    /\ fb_info = FullFramebuffer

Spec == Init /\ [][ClipNext]_vars

\* The clipper is clocked: a state of the FSM that can take its step takes it.
\* The steps that wait for another party are the reciprocal request and answer
\* (the unit answers every request) and the two reads of the output stage (the
\* consumer is eventually ready).  Arrival of input vertices is not assumed.
ClipFairness ==
    /\ WF_vars(Check)
    /\ WF_vars(Clip)
    /\ WF_vars(ClipPlane)
    /\ WF_vars(ClipEdge)
    /\ WF_vars(ClipInvReq)
    /\ WF_vars(ClipInvWait)
    /\ WF_vars(ClipApply)
    /\ WF_vars(ClipEmit)
    /\ WF_vars(ClipOutput)
    /\ WF_vars(WOutTakeI)
    /\ WF_vars(WOutTakeN)

FairSpec == Init /\ [][ClipNext]_vars /\ ClipFairness

\* the clipper fed with successive primitives of changing topology
HistSpec == Init /\ [][HistNext]_vars

\* the rasterizer at work, the clipper idle
RastInit ==
    /\ rast_state = "COLLECT"
    /\ fb_info \in FbConfigs
    /\ RastRegsReset
    /\ FrontRegsReset
    /\ state = "COLLECT"
    /\ prim_type = TRIANGLES
    /\ ClipRegsReset

RastSpec == RastInit /\ [][RastNext]_vars

\* the rasterizer with triangles that reach the top of the coordinate range
EdgeInit ==
    /\ rast_state = "COLLECT"
    /\ fb_info \in EdgeFbConfigs
    /\ RastRegsReset
    /\ FrontRegsReset
    /\ state = "COLLECT"
    /\ prim_type = TRIANGLES
    /\ ClipRegsReset

EdgeSpec == EdgeInit /\ [][EdgeNext]_vars

\* The rasterizer is clocked: a state of the FSM that can take its step takes
\* it.  The reciprocal unit accepts and answers every request and the fragment
\* consumer is eventually ready.  Arrival of input vertices is not assumed.
RastFairness ==
    /\ WF_vars(Setup)
    /\ WF_vars(BoundingBox(TRUE))
    /\ WF_vars(AreaRecipWait)
    /\ WF_vars(ScanInit)
    /\ WF_vars(Scan)
    /\ WF_vars(Emit(TRUE))
    /\ WF_vars(InterpWait)
    /\ WF_vars(Output)
    /\ WF_vars(Advance)

EdgeFairSpec == EdgeInit /\ [][EdgeNext]_vars /\ RastFairness

RastFairSpec == RastInit /\ [][RastNext]_vars /\ RastFairness

\* both units after reset
UnitsInit ==
    /\ state = "COLLECT"
    /\ rast_state = "COLLECT"
    /\ \/ prim_type \in PrimitiveTypes /\ fb_info = FullFramebuffer
       \/ prim_type = TRIANGLES /\ fb_info \in FbConfigs
    /\ ClipRegsReset
    /\ RastRegsReset
    /\ FrontRegsReset

UnitsSpec == UnitsInit /\ [][UnitsNext]_vars

\* the primitive assembly at work, the other units idle
PaInit ==
    /\ state = "COLLECT"
    /\ prim_type = TRIANGLES
    /\ ClipRegsReset
    /\ rast_state = "COLLECT"
    /\ RastRegsReset
    /\ fb_info = FullFramebuffer
    /\ PaRegsReset
    /\ pa_prim_type \in PrimitiveTypes
    /\ prim_cull \in {"NONE", "BACK"}
    /\ prim_winding \in {"CCW", "CW"}
    /\ pa_input \in PaInputs(pa_prim_type)
    /\ IgIdle
    /\ IaIdle
    /\ VtIdle
    /\ ItpIdle

PaSpec == PaInit /\ [][PaNext]_vars

\* the index generator at work, the other units idle
IgInit ==
    /\ state = "COLLECT"
    /\ prim_type = TRIANGLES
    /\ ClipRegsReset
    /\ rast_state = "COLLECT"
    /\ RastRegsReset
    /\ fb_info = FullFramebuffer
    /\ PaIdle
    /\ IgRegsReset
    /\ ig_config \in [address : IgAddresses, count : 0..MaxIndexCount, kind : IndexKinds]
    /\ IaIdle
    /\ VtIdle
    /\ ItpIdle

IgSpec == IgInit /\ [][IgNext]_vars

\* the input assembly at work, the other units idle
IaInit ==
    /\ state = "COLLECT"
    /\ prim_type = TRIANGLES
    /\ ClipRegsReset
    /\ rast_state = "COLLECT"
    /\ RastRegsReset
    /\ fb_info = FullFramebuffer
    /\ PaIdle
    /\ IgIdle
    /\ IaRegsReset
    /\ \E s \in IaStrides :
          \E modes \in [IaAttributes -> {"CONSTANT", "PER_VERTEX"}] :
              ia_attrs = [a \in IaAttributes |-> IaDescription(modes[a], s)]
    /\ VtIdle
    /\ ItpIdle

IaSpec == IaInit /\ [][IaNext]_vars

\* the vertex transform at work, the other units idle
VtInit ==
    /\ state = "COLLECT"
    /\ prim_type = TRIANGLES
    /\ ClipRegsReset
    /\ rast_state = "COLLECT"
    /\ RastRegsReset
    /\ fb_info = FullFramebuffer
    /\ PaIdle
    /\ IgIdle
    /\ IaIdle
    /\ ItpIdle
    /\ VtRegsReset
    /\ vt_enabled \in [normal : {0, 1}, texture : {<< 0, 0 >>, << 0, 1 >>, << 1, 0 >>, << 1, 1 >>}]
    /\ position_mv \in VtMatrices4
    /\ position_p \in VtMatrices4
    /\ normal_mv_inv_t \in VtMatrices3
    /\ texture_transforms \in {<< Identity4, Identity4 >>, << Translate4, Identity4 >>}

VtSpec == VtInit /\ [][VtNext]_vars

\* the topology processor at work, the other units idle
ItpInit ==
    /\ state = "COLLECT"
    /\ prim_type = TRIANGLES
    /\ ClipRegsReset
    /\ rast_state = "COLLECT"
    /\ RastRegsReset
    /\ fb_info = FullFramebuffer
    /\ PaIdle
    /\ IgIdle
    /\ IaIdle
    /\ VtIdle
    /\ ItpRegsReset
    /\ itp_config \in [input_topology : InputTopologies,
                       primitive_restart_enable : {0, 1},
                       primitive_restart_index : {ItpRestartIndex}]
    /\ itp_input \in ItpInputs

ItpSpec == ItpInit /\ [][ItpNext]_vars

\* ------------------------------------------------------- properties: clipper
\* Vocabulary of the properties, from the specification's definitions.
\* Vertex v is outside plane p (planes in the order +x, -x, +y, -y, +z, -z).
Violates(p, v) ==
    LET c == v.position_ndc[(p \div 2) + 1]
    IN  IF p % 2 = 0 THEN c > W(v) ELSE c < 0 - W(v)

Outcode(v) == { p \in Planes : Violates(p, v) }

StrictlyInside(v) ==
    \A k \in 1 .. 3 : v.position_ndc[k] < W(v) /\ v.position_ndc[k] > 0 - W(v)

\* buf holds a complete primitive that has entered CHECK
Processed == nprims >= 1 /\ idx = 0
\* ... and the clipper is done with it
Finished == Processed /\ state = "COLLECT"

IsTriangle == prim_type = TRIANGLES

\* C1 (Identity): a triangle whose three vertices all have outcode 0 never enters
\* the clip passes, and once the clipper is done with it exactly one triangle
\* has been emitted: the input vertices, in order, with all attributes unchanged.
C1_Identity ==
    (IsTriangle /\ Processed /\ \A i \in 0 .. 2 : Outcode(buf[i]) = {}) =>
        /\ state \in {"CHECK", "COLLECT"}
        /\ state = "CHECK" => emitted = << >>
        /\ state = "COLLECT" => emitted = << [p |-> buf, n |-> 3] >>

C1_Witness ==
    /\ IsTriangle /\ Finished
    /\ \A i \in 0 .. 2 : Outcode(buf[i]) = {}
    /\ buf[0] # buf[1] /\ buf[1] # buf[2] /\ buf[0] # buf[2]
    /\ emitted = << [p |-> buf, n |-> 3] >>
    /\ w_out.i_valid = 1 /\ w_out.i_p = buf

\* C2 (Annihilation): a triangle whose three vertices violate one common plane
\* produces no output and the clipper goes from CHECK straight back to COLLECT.
C2_Annihilation ==
    (IsTriangle /\ Processed /\ \E p \in Planes : \A i \in 0 .. 2 : Violates(p, buf[i])) =>
        /\ emitted = << >>
        /\ state \in {"CHECK", "COLLECT"}

C2_Witness ==
    /\ IsTriangle /\ Finished
    /\ \A i \in 0 .. 2 : Violates(3, buf[i])
    /\ emitted = << >>

\* C3 (Convexity bound): for a triangle the vertex count of both clip-polygon
\* buffers stays within 0..9 and at most 7 triangles are emitted.
C3_ConvexityBound ==
    IsTriangle =>
        /\ clip_count[0] <= 9
        /\ clip_count[1] <= 9
        /\ Len(emitted) <= 7

\* C7: a triangle with exactly one vertex strictly outside exactly one plane and
\* the other two strictly inside all planes yields exactly 2 triangles forming the
\* fan (p0,p1,p2), (p0,p2,p3) over a polygon that contains both inside vertices.
C7_OneVertexOutside ==
    (IsTriangle /\ Finished /\
       \E o \in 0 .. 2 :
          /\ Cardinality(Outcode(buf[o])) = 1
          /\ \A i \in (0 .. 2) \ {o} : StrictlyInside(buf[i])) =>
        /\ Len(emitted) = 2
        /\ emitted[1].p[0] = emitted[2].p[0]
        /\ emitted[1].p[2] = emitted[2].p[1]
        /\ \A i \in 0 .. 2 :
              StrictlyInside(buf[i]) =>
                 buf[i] \in { emitted[1].p[0], emitted[1].p[1],
                              emitted[1].p[2], emitted[2].p[2] }

\* C8 (Plane membership): a vertex created by intersecting an edge with plane p
\* is stored with its plane coordinate equal to w (upper planes) or -w (lower planes).
C8_PlaneMembership ==
    created # NoVertex =>
        LET c == created.v.position_ndc[(created.plane \div 2) + 1]
        IN  IF created.plane % 2 = 0 THEN c = W(created.v) ELSE c = 0 - W(created.v)

\* C9: every vertex of every triangle emitted by the clipper has outcode 0.
C9_EmittedInsideVolume ==
    IsTriangle =>
        \A k \in 1 .. Len(emitted) : \A i \in 0 .. 2 : Outcode(emitted[k].p[i]) = {}

\* C10: a point or line that CHECK neither rejects nor accepts is emitted with
\* its vertices unchanged once the clipper is done with it.
C10_LinePointPassThrough ==
    (~IsTriangle /\ Finished
       /\ (Outcode(buf[0]) \cap Outcode(buf[1]) \cap Outcode(buf[2])) = {}
       /\ (Outcode(buf[0]) \cup Outcode(buf[1]) \cup Outcode(buf[2])) # {}) =>
        /\ Len(emitted) = 1
        /\ emitted[1].n = needed
        /\ \A i \in 0 .. needed - 1 : emitted[1].p[i] = buf[i]

\* the outcodes of the vertices that belong to the primitive in the buffer
OwnOutcodes == UNION { Outcode(buf[i]) : i \in 0 .. needed - 1 }

\* C11: the output for a primitive is determined by its own vertices and its
\* topology alone.  Directly after reset a point or line whose own vertices are
\* all inside the volume is emitted unchanged; the same primitive presented
\* after an earlier primitive is emitted unchanged too.
C11_HistoryIndependent ==
    (~IsTriangle /\ Finished /\ nprims = MaxHistPrims /\ OwnOutcodes = {}) =>
        /\ Len(emitted) = 1
        /\ emitted[1].n = needed
        /\ \A i \in 0 .. needed - 1 : emitted[1].p[i] = buf[i]

\* C16: a triangle is written into the output stage only when the vertex word
\* and the count written before have both been taken; every write records the
\* primitive or fan triangle after the ones written before, and a word or
\* count on offer is taken unchanged, so nothing is overwritten or dropped.
C16_OutputStageBackpressure ==
    [][ /\ (w_out'.i_p # w_out.i_p \/ w_out'.n_p # w_out.n_p
             \/ (emitted' # emitted /\ emitted' # << >>)) =>
              /\ w_out.i_valid = 0 /\ w_out.n_valid = 0
              /\ w_out'.i_valid = 1 /\ w_out'.n_valid = 1
              /\ emitted' = Append(emitted, [p |-> w_out'.i_p, n |-> w_out'.n_p])
        /\ (w_out.i_valid = 1 \/ w_out.n_valid = 1) =>
              /\ w_out'.i_p = w_out.i_p
              /\ w_out'.n_p = w_out.n_p
              /\ emitted' \in {emitted, << >>} ]_vars

\* the second triangle of a fan waits for the first one to be taken
C16_Witness ==
    /\ state = "CLIP_OUTPUT"
    /\ Len(emitted) >= 1
    /\ w_out.i_valid = 0 /\ w_out.n_valid = 1

\* C18: if the reciprocal unit answers every request and the output consumer
\* is eventually ready, the clipper, once it has left COLLECT with a primitive,
\* eventually returns to COLLECT.
C18_ClippingTerminates == (state # "COLLECT") ~> (state = "COLLECT")

\* a clipped triangle has been turned into a fan and the clipper is back
C18_Witness ==
    /\ Finished
    /\ IsTriangle
    /\ created # NoVertex
    /\ Len(emitted) >= 2

\* ------------------------------------------------------- properties: rasterizer
\* the rasterizer holds a complete triangle and its screen coordinates
Screened == ntris >= 1 /\ vtx_idx = 0 /\ rast_state # "SETUP"
\* ... and is done with it
RastFinished == Screened /\ rast_state = "COLLECT"

\* signed screen-space area of the triangle, exact
TrueArea ==
    edge_fn(screen_x[0], screen_y[0], screen_x[1], screen_y[1], screen_x[2], screen_y[2])

\* C4: for a triangle of screen-space area 0 no fragment is emitted and no
\* reciprocal request with operand 0 is issued.
C4_DegenerateDiscarded ==
    (Screened /\ TrueArea = 0) =>
        /\ frags = << >>
        /\ rast_inv_busy => rast_inv_arg # 0

\* C5: every fragment's pixel lies inside the scissor rectangle.
C5_FragmentsInsideScissor ==
    \A k \in 1 .. Len(frags) :
        /\ fb_info.scissor_offset_x <= frags[k].coord_pos[1]
        /\ frags[k].coord_pos[1] <= fb_info.scissor_offset_x + fb_info.scissor_width - 1
        /\ fb_info.scissor_offset_y <= frags[k].coord_pos[2]
        /\ frags[k].coord_pos[2] <= fb_info.scissor_offset_y + fb_info.scissor_height - 1

\* The positions one scan line visits: it starts at lo and steps by one pixel
\* until a position at or past hi has been visited.
ScanLine(lo, hi) ==
    { lo + i * ONE : i \in { j \in 0 .. Pow2(IntBits) : j = 0 \/ lo + (j - 1) * ONE < hi } }

\* scan positions of the scissor-clamped bounding box
ScanPositions ==
    IF completely_outside THEN {}
    ELSE ScanLine(IF bb_min_x < scissor_x THEN scissor_x ELSE bb_min_x,
                  IF bb_max_x > scissor_max_x THEN scissor_max_x ELSE bb_max_x)
         \X
         ScanLine(IF bb_min_y < scissor_y THEN scissor_y ELSE bb_min_y,
                  IF bb_max_y > scissor_max_y THEN scissor_max_y ELSE bb_max_y)

\* the three edge values at p share the sign of the triangle's area
Covered(p) ==
    LET e0 == edge_fn(screen_x[1], screen_y[1], screen_x[2], screen_y[2], p[1], p[2])
        e1 == edge_fn(screen_x[2], screen_y[2], screen_x[0], screen_y[0], p[1], p[2])
        e2 == edge_fn(screen_x[0], screen_y[0], screen_x[1], screen_y[1], p[1], p[2])
    IN  \/ (TrueArea > 0 /\ e0 >= 0 /\ e1 >= 0 /\ e2 >= 0)
        \/ (TrueArea < 0 /\ e0 <= 0 /\ e1 <= 0 /\ e2 <= 0)

ScissorEmpty == fb_info.scissor_width = 0 \/ fb_info.scissor_height = 0

\* the unclamped bounding box has no point in the scissor rectangle
BoxOutsideScissor ==
    \/ ScissorEmpty
    \/ bb_max_x < scissor_x
    \/ bb_max_y < scissor_y
    \/ bb_min_x >= scissor_x + fb_info.scissor_width * ONE
    \/ bb_min_y >= scissor_y + fb_info.scissor_height * ONE

\* C12: a triangle whose unclamped bounding box lies entirely outside the
\* scissor rectangle yields no fragment and no reciprocal request and never
\* enters the pixel scan: from BOUNDING_BOX the rasterizer goes back to COLLECT.
C12_GuardBandCull ==
    (Screened /\ BoxOutsideScissor) =>
        /\ frags = << >>
        /\ ~rast_inv_busy
        /\ rast_state \in {"BOUNDING_BOX", "COLLECT"}


\* pixel a comes before pixel b in row-major order
RowMajorBefore(a, b) == a[2] < b[2] \/ (a[2] = b[2] /\ a[1] < b[1])

\* C13: within one triangle the pixel coordinates of successive fragments
\* strictly increase lexicographically in (y, x) (so no pixel receives two
\* fragments), and every fragment comes from a position of the clamped box.
C13_RowMajorOrder ==
    Screened =>
        /\ \A k \in 1 .. Len(frags) : frags[k].at \in ScanPositions
        /\ \A k \in 2 .. Len(frags) :
              RowMajorBefore(frags[k - 1].coord_pos, frags[k].coord_pos)


\* a fragment has just been handed over; px, py are still its position
FragmentTaken ==
    /\ Screened
    /\ rast_state = "ADVANCE"
    /\ Len(frags) >= 1
    /\ frags[Len(frags)].at = << px, py >>

\* the edge values of the triangle at the current scan position, as registered
EdgeValue(i) ==
    LET j == (i + 1) % 3
        k == (i + 2) % 3
    IN  Narrow2(edge_fn(screen_x[j], screen_y[j], screen_x[k], screen_y[k], px, py))

\* the area register of the triangle being rasterized
AreaOfTriangle == Narrow2(TrueArea)

\* C14: the depth of a fragment is e0*z0 + e1*z1 + e2*z2 times the reciprocal
\* of the area of the triangle being rasterized (no w takes part), and color
\* and texture coordinates are their numerators times the reciprocal of
\* inv_w_sum at the fragment's position.
C14_DepthNormalisedByArea ==
    FragmentTaken =>
        LET dnum == Narrow2(EdgeValue(0) * Z(vtx[0]) + EdgeValue(1) * Z(vtx[1])
                            + EdgeValue(2) * Z(vtx[2]))
            wsum == Narrow2(EdgeValue(0) * W(vtx[0]) + EdgeValue(1) * W(vtx[1])
                            + EdgeValue(2) * W(vtx[2]))
        IN  /\ \E r \in RecipResults(AreaOfTriangle) :
                   os_fragment.depth = Narrow2(dnum * r)
            /\ \E r \in RecipResults(wsum) :
                   /\ os_fragment.color = Narrow2(color_num * r)
                   /\ os_fragment.texcoords = Narrow2(texcoord_num * r)


ClipComplete ==
    \/ emitted = << >>
    \/ TrivialAccept /\ Len(emitted) = 1
    \/ ~TrivialAccept /\ needed = 3 /\ Len(emitted) = clip_count[clip_src] - 2

\* the rasterizer has dropped the triangle or produced its last fragment
RastComplete ==
    \/ completely_outside /\ frags = << >>
    \/ ~completely_outside
          /\ \A p \in ScanPositions :
                 Covered(p) => \E k \in 1 .. Len(frags) : frags[k].at = p

\* C17: clipper and rasterizer take a vertex only while their input ready is
\* asserted, which is in COLLECT only; they come back to COLLECT only when the
\* primitive has been dropped or its last output item produced; output items
\* are produced only while no vertex can be accepted, so the items of
\* successive primitives come in input order and are not interleaved.
C17_OnePrimitiveAtATime ==
    [][ /\ (buf' # buf \/ idx' # idx \/ nprims' # nprims) => is_vertex_ready
        /\ (vtx' # vtx \/ vtx_idx' # vtx_idx \/ ntris' # ntris) => rast_is_vertex_ready
        /\ is_vertex_ready <=> state = "COLLECT"
        /\ rast_is_vertex_ready <=> rast_state = "COLLECT"
        /\ (~is_vertex_ready /\ is_vertex_ready') => ClipComplete'
        /\ (~rast_is_vertex_ready /\ rast_is_vertex_ready') => RastComplete'
        /\ (emitted' # emitted /\ emitted' # << >>) => ~is_vertex_ready
        /\ (frags' # frags /\ frags' # << >>) => ~rast_is_vertex_ready ]_vars

\* the second of two successive primitives has produced a fan of several
\* triangles and the clipper accepts vertices again
C17_Witness ==
    /\ nprims = MaxHistPrims
    /\ state = "COLLECT"
    /\ idx = 0
    /\ Len(emitted) >= 2


\* C19: if the reciprocal unit answers every request and the fragment consumer
\* is eventually ready, the rasterizer, once it has left COLLECT with a
\* triangle, eventually returns to COLLECT.
C19_RasterizationTerminates == (rast_state # "COLLECT") ~> (rast_state = "COLLECT")


\* the fragment just handed over was produced at the screen position of vertex k
FragmentAtVertex(k) ==
    /\ FragmentTaken
    /\ TrueArea # 0
    /\ px = screen_x[k]
    /\ py = screen_y[k]

\* C20: a fragment produced at the screen position of vertex k carries the
\* color and the texture coordinates of vertex k exactly.
C20_VertexAttributesReproduced ==
    \A k \in 0 .. 2 :
        FragmentAtVertex(k) =>
            /\ os_fragment.color = vtx[k].color
            /\ os_fragment.texcoords = vtx[k].texcoords


\* the weights of the current scan position are registered
WeightsStored ==
    /\ Screened
    /\ rast_state \in {"EMIT", "INTERP_WAIT", "OUTPUT", "ADVANCE"}

\* C21: at every scan position the three edge values stored as weights add up
\* to the stored area, up to the truncation of the three products (one unit in
\* the last place each).
C21_PartitionOfUnity ==
    WeightsStored => Abs(w0 + w1 + w2 - area) <= 3

\* ------------------------------------------------------- properties: primitive assembly
\* the triangle on offer is wound counter-clockwise (positive signed area)
CounterClockwise(tri) ==
    LET a == tri[1].position_proj
        b == tri[2].position_proj
        c == tri[3].position_proj
    IN  (b[1] - a[1]) * (c[2] - a[2]) - (c[1] - a[1]) * (b[2] - a[2]) > 0

\* the triangle faces the viewer under the configured front face
FrontFacing(tri) == CounterClockwise(tri) <=> (prim_winding = "CCW")

\* the output vertex the specification gives for input vertex p
PaExpected(p, front) ==
    [position_proj |-> p.position_proj, texcoords |-> p.texcoords,
     color |-> IF front THEN p.color ELSE p.color_back,
     front_facing |-> IF front THEN 1 ELSE 0]

\* C23: for POINTS and LINES the output vertices are the accepted input
\* vertices, one for one and in order, with position and colour unchanged and
\* front_facing = 1; without an accepted input vertex there is no output vertex.
C23_PointsLinesOneForOne ==
    pa_prim_type \in {POINTS, LINES} =>
        /\ Len(pa_out) <= Len(pa_accepted)
        /\ \A i \in 1..Len(pa_out) : pa_out[i] = PaExpected(pa_accepted[i], TRUE)

\* C24: with cull mode BACK and front face CCW a clockwise triangle gives no
\* output vertex.
C24_BackFaceCulled ==
    ( /\ pa_prim_type = TRIANGLES
      /\ prim_cull = "BACK"
      /\ prim_winding = "CCW"
      /\ ~CounterClockwise(pa_input) )
        => Len(pa_out) = 0

\* C25: with culling disabled the output vertices are the triangle's vertices
\* in order, positions unchanged, with front_facing = 1 and the front colour
\* when the winding matches the front face and front_facing = 0 and color_back
\* when it does not.
C25_FacingSelectsColour ==
    (pa_prim_type = TRIANGLES /\ prim_cull = "NONE") =>
        /\ Len(pa_out) <= Len(pa_input)
        /\ \A i \in 1..Len(pa_out) :
              pa_out[i] = PaExpected(pa_input[i], FrontFacing(pa_input))

\* ------------------------------------------------------- properties: index generator
\* the unit has been started with the configured description
IgStarted == ig_runs > 0

LittleEndianAt(a, size) ==
    IF size = 1 THEN IgByte(a)
    ELSE IF size = 2 THEN IgByte(a) + 256 * IgByte(a + 1)
    ELSE IgByte(a) + 256 * IgByte(a + 1) + 65536 * IgByte(a + 2) + 16777216 * IgByte(a + 3)

\* C27: started with kind U8, U16 or U32 the unit emits the indices in order,
\* the i-th being the little-endian unsigned value of the 1, 2 or 4 bytes at
\* address + i * size, also from an unaligned start address.
C27_IndexedReadsMemory ==
    (IgStarted /\ ig_config.kind \in {U8, U16, U32}) =>
        /\ Len(ig_out) <= ig_config.count
        /\ \A i \in 1..Len(ig_out) :
              ig_out[i] = LittleEndianAt(
                              ig_config.address + (i - 1) * index_increment(ig_config.kind),
                              index_increment(ig_config.kind))

\* ------------------------------------------------------- properties: input assembly
\* the vertex the attribute descriptions give for an index
IaExpected(index) ==
    [a \in IaAttributes |->
        [i \in 1..IaComponents(a) |->
            IF ia_attrs[a].input_mode = "CONSTANT"
            THEN ia_attrs[a].constant_value[i]
            ELSE ChangeRadix(IaWord(ia_attrs[a].address + index * ia_attrs[a].stride
                                        + 4 * (i - 1)))]]

\* C28: the vertices emitted are one per accepted index, in index order; an
\* attribute in CONSTANT mode has its configured constant value and component i
\* of an attribute in PER_VERTEX mode is the word read from address +
\* index * stride + 4 * i.
C28_VertexPerIndex ==
    /\ Len(ia_out) <= Len(ia_in)
    /\ \A k \in 1..Len(ia_out) : ia_out[k] = IaExpected(ia_in[k])

\* ------------------------------------------------------- properties: vertex transform
\* element (row r, column c) of a column-major matrix, rows and columns from 0
ColumnMajor(M, dim, r, c) == M[dim * c + r + 1]

\* the sum of the first n products of row r of M with v, in the unit's arithmetic
RECURSIVE RowDot(_, _, _, _, _)
RowDot(M, dim, r, v, n) ==
    IF n = 0 THEN 0
    ELSE Wrap(RowDot(M, dim, r, v, n - 1)
              + Wrap(MulReshape(v[n], ChangeRadix(ColumnMajor(M, dim, r, n - 1)))))

\* M * v for a column-major matrix M
MatVec(M, dim, v) == [r \in 1..dim |-> RowDot(M, dim, r - 1, v, dim)]

\* C29: position_view = MV * position and position_proj = P * position_view with
\* column-major matrices (row r, column c at index 4 * c + r).
C29_ColumnMajorTransform ==
    /\ Len(vt_out) <= Len(vt_in)
    /\ \A k \in 1..Len(vt_out) :
          /\ vt_out[k].position_view = MatVec(position_mv, 4, vt_in[k].position)
          /\ vt_out[k].position_proj = MatVec(position_p, 4, vt_out[k].position_view)

TakesPasses == IsTriangle /\ Processed /\ ~TrivialReject /\ ~TrivialAccept

\* the polygon the plane passes have left, and its vertex count
FinalPolygon == clip_buf[clip_src]
FinalCount == clip_count[clip_src]

\* vertex i of that polygon; the buffer holds vertices 0 .. 8
PolygonVertex(i) == IF i <= 8 THEN FinalPolygon[i] ELSE [stored |-> FALSE]

\* the first k emitted primitives are the fan triangles (v0, v[i-1], v[i]), i = 2 .. k+1
FanPrefix(k) ==
    /\ Len(emitted) = k
    /\ \A t \in 1 .. k :
          /\ emitted[t].n = 3
          /\ emitted[t].p[0] = PolygonVertex(0)
          /\ emitted[t].p[1] = PolygonVertex(t)
          /\ emitted[t].p[2] = PolygonVertex(t + 1)

\* C31: after the plane passes a polygon of n >= 3 vertices is emitted as exactly
\* the n - 2 triangles (v0, v[i-1], v[i]), i = 2 .. n-1, in increasing i; a
\* polygon of fewer than 3 vertices gives no triangle.
C31_FanEmission ==
    TakesPasses =>
        /\ state \notin {"CLIP_OUTPUT", "COLLECT"} => emitted = << >>
        /\ state = "CLIP_OUTPUT" => FanPrefix(clip_idx - 2)
        /\ state = "COLLECT" => FanPrefix(IF FinalCount >= 3 THEN FinalCount - 2 ELSE 0)

\* a clipped polygon of four or more vertices has been emitted completely
C31_Witness ==
    /\ TakesPasses
    /\ state = "COLLECT"
    /\ FinalCount >= 4
    /\ Len(emitted) = FinalCount - 2

\* the pass over plane clip_plane: source polygon, destination polygon, the edge at clip_idx
PassSrc == clip_src
PassDst == 1 - clip_src
PassNextIdx == IF clip_idx + 1 = clip_count[PassSrc] THEN 0 ELSE clip_idx + 1

\* this step appends the vertices s, in order, to the destination polygon
Appends(s) ==
    LET n == clip_count[PassDst]
    IN  /\ n + Len(s) <= 9
        /\ clip_count'[PassDst] = n + Len(s)
        /\ \A i \in 0 .. 8 :
              clip_buf'[PassDst][i] =
                  IF i >= n /\ i < n + Len(s) THEN s[i - n + 1] ELSE clip_buf[PassDst][i]

\* this step goes on to the next edge in index order, or to the next plane after the last edge
Advances ==
    IF clip_idx + 1 = clip_count[PassSrc]
      THEN /\ clip_src' = PassDst
           /\ IF clip_plane = 5
                THEN state' = "CLIP_EMIT"
                ELSE clip_plane' = clip_plane + 1 /\ state' = "CLIP_PLANE"
      ELSE /\ clip_idx' = clip_idx + 1
           /\ clip_src' = clip_src
           /\ clip_plane' = clip_plane
           /\ state' = "CLIP_EDGE"

HoldsEdge ==
    /\ clip_buf' = clip_buf /\ clip_count' = clip_count /\ clip_idx' = clip_idx
    /\ clip_src' = clip_src /\ clip_plane' = clip_plane

PassStep ==
    /\ state = "CLIP" /\ needed = 3 => clip_plane' = 0 /\ clip_count'[clip_src'] = 3
    /\ state = "CLIP_PLANE" /\ state' = "CLIP_EDGE" =>
          /\ clip_idx' = 0 /\ clip_count'[PassDst] = 0
          /\ clip_src' = clip_src /\ clip_plane' = clip_plane
          /\ clip_buf' = clip_buf
    /\ state \in {"CLIP_INV_REQ", "CLIP_INV_WAIT"} => HoldsEdge
    /\ state \in {"CLIP_EDGE", "CLIP_APPLY"} =>
          /\ clip_idx <= 8 /\ PassNextIdx <= 8
          /\ clip_buf'[PassSrc] = clip_buf[PassSrc]
          /\ clip_count'[PassSrc] = clip_count[PassSrc]
          /\ LET current == clip_buf[PassSrc][clip_idx]
                 next == clip_buf[PassSrc][PassNextIdx]
                 current_inside == PlaneDist(clip_plane, current) >= 0
                 next_inside == PlaneDist(clip_plane, next) >= 0
                 intersection ==
                     IntersectVertex(clip_plane, current, next,
                                     Wrap(MulReshape(t_num, t_recip)))
             IN  IF state = "CLIP_EDGE"
                   THEN /\ current_inside /\ next_inside => Appends(<< next >>) /\ Advances
                        /\ ~current_inside /\ ~next_inside => Appends(<< >>) /\ Advances
                        /\ current_inside # next_inside =>
                              /\ Appends(<< >>)
                              /\ clip_idx' = clip_idx /\ clip_src' = clip_src
                              /\ clip_plane' = clip_plane
                              /\ state' = "CLIP_INV_REQ"
                   ELSE /\ current_inside # next_inside
                        /\ current_inside => Appends(<< intersection >>)
                        /\ next_inside => Appends(<< intersection, next >>)
                        /\ Advances

\* C32: in each plane pass (planes 0 .. 5 = +x, -x, +y, -y, +z, -z in this order) the
\* edges (current, next) are taken in index order with wrap-around; an edge appends to
\* the destination polygon the next vertex (both ends inside), the intersection only
\* (current inside, next outside), the intersection and then the next vertex (current
\* outside, next inside) or nothing (both outside), so the destination count grows by
\* 1, 1, 2 and 0, and the source polygon is not modified during the pass.
C32_PlanePass == [][PassStep]_vars

\* an edge that enters the volume has been handled: the destination grew by two
C32_Witness ==
    /\ state = "CLIP_EDGE" /\ emit_next = 1 /\ clip_idx = edge_curr_idx + 1
    /\ clip_count[PassDst] >= 2
    /\ clip_buf[PassDst][clip_count[PassDst] - 2] = created.v

\* ------------------------------------------------------- properties: clip denominators
\* the edge CLIP_EDGE has handed to the reciprocal: its ends and their stored distances
EdgeCurrDist == PlaneDist(clip_plane, clip_buf[clip_src][Slot(edge_curr_idx)])
EdgeNextDist == PlaneDist(clip_plane, clip_buf[clip_src][Slot(edge_next_idx)])

\* C33: every reciprocal request of the clipper has a nonzero operand: while the request
\* is offered or in flight the edge's two ends are classified on opposite sides of the
\* current plane, t_den holds dist_curr - dist_next as a fixed-point value, and neither
\* t_den nor the operand the reciprocal unit took is 0.
C33_NonzeroDenominator ==
    /\ state \in {"CLIP_INV_REQ", "CLIP_INV_WAIT"} =>
          /\ (EdgeCurrDist >= 0) # (EdgeNextDist >= 0)
          /\ t_den = Wrap(EdgeCurrDist - EdgeNextDist)
          /\ t_den # 0
    /\ inv_busy => inv_arg # 0 /\ inv_arg = t_den

\* a request is in flight for an edge that leaves the volume
C33_Witness ==
    /\ state = "CLIP_INV_WAIT" /\ inv_busy /\ inv_arg # 0
    /\ EdgeCurrDist >= 0 /\ EdgeNextDist < 0

\* ------------------------------------------------------- properties: reciprocal operands
\* C34: the operand of the area reciprocal request the unit has accepted is the signed
\* area of the triangle being rasterized, whichever cycle of BOUNDING_BOX it was
\* accepted in.
C34_AreaOperandCurrent ==
    rast_state = "AREA_RECIP_WAIT" /\ rast_inv_busy => rast_inv_arg = AreaOfTriangle

\* inv_w_sum of the current scan position
InvWSumOfPixel ==
    Narrow2(EdgeValue(0) * W(vtx[0]) + EdgeValue(1) * W(vtx[1]) + EdgeValue(2) * W(vtx[2]))

\* C35: the operand of the per-pixel reciprocal request the unit has accepted is the
\* inv_w_sum of that pixel, and the color and texture coordinates of the pixel's
\* fragment are their numerators times a reciprocal of that pixel's inv_w_sum.
C35_PixelOperandCurrent ==
    /\ rast_state = "INTERP_WAIT" /\ rast_inv_busy => rast_inv_arg = InvWSumOfPixel
    /\ rast_state = "OUTPUT" =>
          \E r \in RecipResults(InvWSumOfPixel) :
              /\ os_fragment_payload.color = Narrow2(color_num * r)
              /\ os_fragment_payload.texcoords = Narrow2(texcoord_num * r)

\* ------------------------------------------------------- properties: input topology
IsPrefix(s, t) == Len(s) <= Len(t) /\ \A i \in 1 .. Len(s) : s[i] = t[i]

\* The output indices of a triangle strip i0, i1, ...: triangle k is (ik, ik+1, ik+2)
\* for even k and (ik+1, ik, ik+2) for odd k.
StripExpected(s) ==
    LET n == IF Len(s) >= 3 THEN Len(s) - 2 ELSE 0
    IN  [m \in 1 .. 3 * n |->
            LET k == (m - 1) \div 3
                j == ((m - 1) % 3) + 1
            IN  IF k % 2 = 0 THEN s[k + j]
                ELSE IF j = 1 THEN s[k + 2]
                ELSE IF j = 2 THEN s[k + 1]
                ELSE s[k + 3]]

\* a primitive restart has been accepted
RestartSeen ==
    /\ itp_config.primitive_restart_enable = 1
    /\ \E i \in 1 .. Len(itp_in) : itp_in[i] = itp_config.primitive_restart_index

\* C36: with topology TRIANGLE_STRIP and indices i0, i1, ... the indices delivered are
\* those of the triangles (ik, ik+1, ik+2) for even k and (ik+1, ik, ik+2) for odd k,
\* in this order, alternating for the whole strip; all of them once the unit is ready.
C36_StripAlternates ==
    itp_config.input_topology = TRIANGLE_STRIP /\ ~RestartSeen =>
        /\ IsPrefix(itp_out, StripExpected(itp_in))
        /\ itp_ready => itp_out = StripExpected(itp_in)

\* the output indices produced and not yet transferred: the output register, then to_send
ItpPending ==
    (IF index_stream_output.valid = 1 THEN << index_stream_output.payload >> ELSE << >>)
        \o [i \in 1 .. to_send_left |-> to_send[to_send_left - i]]

\* C37: for every topology and every stall pattern no output index that is valid and
\* not yet accepted is overwritten or dropped: the output indices of the accepted input
\* indices are the ones delivered so far followed by the ones still held, in order.
C37_NoOutputLost == itp_gen = itp_out \o ItpPending

\* ------------------------------------------------------- properties: inside test
\* the ends of the edge CLIP_EDGE is looking at
EdgeEnds ==
    { clip_buf[clip_src][Slot(clip_idx)], clip_buf[clip_src][Slot(PassNextIdx)] }

\* C38: for every vertex the clipper classifies and every clip plane, the inside test
\* (the distance w - coord or coord + w as stored in a fixed-point signal is >= 0)
\* agrees with the vertex's outcode bit for that plane being clear, also when the
\* distance exceeds the fixed-point range.
C38_InsideTestMatchesOutcode ==
    state = "CLIP_EDGE" =>
        \A v \in EdgeEnds : \A p \in Planes :
            (PlaneDist(p, v) >= 0) <=> (p \notin ClipCode(v))

\* ------------------------------------------------------- properties: clipper ready
\* C39: whenever the clipper asserts ready it is drained: no vertex of a partially
\* collected primitive is held (the collect index is 0) and no output triangle is
\* waiting to be taken by the consumer.
C39_ReadyMeansDrained == clip_ready => idx = 0 /\ OutputFree

\* ------------------------------------------------------- properties: vertex forwarding
\* vertices accepted and not yet transferred: one at work, one in the output register
VtInFlight == (IF vt_state = "IDLE" THEN 0 ELSE 1) + os_vertex.valid

\* exactly one output vertex for each input vertex, in order
VtOnePerInput == Len(vt_in) = Len(vt_out) + VtInFlight

\* C40: the vertex transform forwards the color of each vertex unchanged, and since a
\* new vertex is accepted only in IDLE every input vertex gives exactly one output
\* vertex.
C40_ColorForwarded ==
    /\ VtOnePerInput
    /\ \A k \in 1 .. Len(vt_out) : vt_out[k].color = vt_in[k].color


====
